---- MODULE Spec2Model ----
(***************************************************************************)
(* PRism triage action: TriageService (processIssue / processPullRequest   *)
(* and its feature tasks), LLMService (judgment calls with bounded parse   *)
(* retries, cosine similarity), the two storage backends and the hosting   *)
(* API wrapper GitHubService.                                              *)
(*                                                                         *)
(* Numbers: a similarity s in [0,1] is held as the integer 1000*s, so      *)
(* 0.85 is 850, a judge value of 2 is 2000 and 86.6 is 86600.  A rendered  *)
(* percentage (s*100).toFixed(1) is held in tenths of a percent, which for *)
(* a value given to three decimals is the same integer: 930 is "93.0%".    *)
(***************************************************************************)
EXTENDS Integers, Sequences, FiniteSets, TLC

\* ------------------------------------------------------------------ bounds
\* Sibling items of the processed item's type that the repository holds.
MaxSiblings == 1
\* Entries the judge puts into verdict.similarItems.
MaxJudged == 1

\* the longest vector handed to cosineSimilarity
MaxDim == 2

\* the most sibling items a repository holds when the neighbor search is
\* followed on its own
MaxScanned == 12

\* ------------------------------------------------------- program constants
parseRetryCount == 2
findSimilarLimit == 10
judgeCandidateLimit == 5

\* --------------------------------------------------------- sequence helpers
Range(s) == { s[i] : i \in 1..Len(s) }

Min2(a, b) == IF a <= b THEN a ELSE b

\* a variant that keeps the whole array
Slice_All(s, n) == s

\* Array.prototype.slice(0, n)
Slice(s, n) == SubSeq(s, 1, Min2(n, Len(s)))

\* Array.prototype.filter with a membership test
FilterIn(s, S) == SelectSeq(s, LAMBDA x : x \in S)

\* where sort((a, b) => b.similarity - a.similarity) puts x into a sorted s:
\* after every element that is not smaller (the sort is stable)
RECURSIVE InsertDesc(_, _)
InsertDesc(x, s) ==
  IF s = << >> THEN << x >>
  ELSE IF Head(s).similarity >= x.similarity
       THEN << Head(s) >> \o InsertDesc(x, Tail(s))
       ELSE << x >> \o s

\* a variant that leaves the scan order
SortDesc_Unsorted(s) == s

RECURSIVE SortDesc(_)
SortDesc(s) ==
  IF s = << >> THEN << >>
  ELSE InsertDesc(s[Len(s)], SortDesc(SubSeq(s, 1, Len(s) - 1)))

IsSortedDesc(s) == \A i \in 1..(Len(s) - 1) : s[i].similarity >= s[i + 1].similarity

\* -------------------------------------------------------------- numbers
\* A number of the program (an IEEE double) is a record [k, m, e]:
\*   k = "fin"        m * 10^(100 * e), m an integer and -3 <= e <= 3
\*   k = "inf"        Infinity (m = 1) or -Infinity (m = -1)
\*   k = "nan"        NaN
\*   k = "undefined"  no value (undefined or an absent property)
\* 1e200 is [fin, 1, 2] and 1e-200 is [fin, 1, -2].  A product beyond 1e308
\* overflows to an infinity, one below 1e-324 underflows to 0, and a sum keeps
\* the operand of the larger exponent (the smaller one is below half an ulp).
LargestExponent == 3

Fin(m) == [k |-> "fin", m |-> m, e |-> 0]
Infinity(sign) == [k |-> "inf", m |-> sign, e |-> 0]
NaN == [k |-> "nan", m |-> 0, e |-> 0]
undefined == [k |-> "undefined", m |-> 0, e |-> 0]

Sign(m) == IF m > 0 THEN 1 ELSE IF m < 0 THEN -1 ELSE 0

\* the double nearest to m * 10^(100 * e)
Scaled(m, e) ==
  IF m = 0 THEN Fin(0)
  ELSE IF e > LargestExponent THEN Infinity(Sign(m))
  ELSE IF e < -LargestExponent THEN Fin(0)
  ELSE [k |-> "fin", m |-> m, e |-> e]

\* Number.isFinite
isFinite(x) == x.k = "fin"

\* x * y
Times(x, y) ==
  IF x.k = "nan" \/ y.k = "nan" THEN NaN
  ELSE IF x.k = "inf" \/ y.k = "inf"
       THEN IF x.m = 0 \/ y.m = 0 THEN NaN ELSE Infinity(Sign(x.m) * Sign(y.m))
       ELSE Scaled(x.m * y.m, x.e + y.e)

\* x + y
Plus(x, y) ==
  IF x.k = "nan" \/ y.k = "nan" THEN NaN
  ELSE IF x.k = "inf" THEN (IF y.k = "inf" /\ y.m # x.m THEN NaN ELSE x)
  ELSE IF y.k = "inf" THEN y
  ELSE IF x.m = 0 THEN y
  ELSE IF y.m = 0 THEN x
  ELSE IF x.e = y.e THEN Scaled(x.m + y.m, x.e)
  ELSE IF x.e > y.e THEN x ELSE y

\* -x
Negated(x) == [x EXCEPT !.m = -x.m]

\* x < y and x >= y; both are false when an operand is NaN
Less(x, y) ==
  /\ x.k # "nan" /\ y.k # "nan"
  /\ x # y
  /\ Plus(x, Negated(y)).m < 0

GreaterEq(x, y) == x.k # "nan" /\ y.k # "nan" /\ ~Less(x, y)

\* the integer square root
ISqrt(n) == CHOOSE r \in 0..n : r * r <= n /\ (r + 1) * (r + 1) > n

\* Math.sqrt, for the sums of squares this model produces: m a perfect square
\* and e even
Sqrt(x) ==
  IF x.k = "nan" THEN NaN
  ELSE IF x.m < 0 THEN NaN
  ELSE IF x.k = "inf" THEN x
  ELSE [k |-> "fin", m |-> ISqrt(x.m), e |-> x.e \div 2]

\* x / y in thousandths: [fin, m, 0] stands for m / 1000
Quotient(x, y) ==
  IF x.k = "nan" \/ y.k = "nan" THEN NaN
  ELSE IF x.k = "inf" THEN (IF y.k = "inf" THEN NaN
                            ELSE Infinity(x.m * (IF y.m < 0 THEN -1 ELSE 1)))
  ELSE IF y.k = "inf" THEN Fin(0)
  ELSE IF y.m = 0 THEN (IF x.m = 0 THEN NaN ELSE Infinity(Sign(x.m)))
  ELSE Scaled((x.m * 1000) \div y.m, x.e - y.e)

\* a vector of small integers as a vector of numbers
Vector(s) == [i \in DOMAIN s |-> Fin(s[i])]

\* ---------------------------------------------------------------- LLMService
\* the accumulation loop of cosineSimilarity: sum of a[i] * b[i]
RECURSIVE SumProducts(_, _)
SumProducts(a, b) ==
  IF a = << >> THEN Fin(0)
  ELSE CHOOSE sum \in { Plus(before, product) :
                          before \in { SumProducts(SubSeq(a, 1, Len(a) - 1),
                                                   SubSeq(b, 1, Len(b) - 1)) },
                          product \in { Times(a[Len(a)], b[Len(b)]) } } : TRUE

\* the end of cosineSimilarity, from the three sums
CosineOf(dotProduct, normA, normB) ==
  CHOOSE out \in
    { IF denominator = Fin(0)
      THEN [threw |-> FALSE, error |-> "none", value |-> Fin(0)]
      ELSE [threw |-> FALSE, error |-> "none", value |-> Quotient(dotProduct, denominator)]
      : denominator \in { Times(rootA, rootB) : rootA \in { Sqrt(normA) },
                                                rootB \in { Sqrt(normB) } } } : TRUE

\* a variant that compares the lengths only when a is the longer vector and
\* otherwise reads b up to the length of a
cosineSimilarity_ShortA(a, b) ==
  IF Len(a) > Len(b)
  THEN [threw |-> TRUE, error |-> "Vectors must have the same length", value |-> NaN]
  ELSE IF \E i \in 1..Len(a) : ~isFinite(a[i]) \/ ~isFinite(b[i])
       THEN [threw |-> TRUE, error |-> "Vectors must contain finite values", value |-> NaN]
  ELSE CosineOf(SumProducts(a, SubSeq(b, 1, Len(a))), SumProducts(a, a),
                SumProducts(SubSeq(b, 1, Len(a)), SubSeq(b, 1, Len(a))))

\* LLMService.cosineSimilarity: [threw, error, value]; value is the quotient in
\* thousandths
cosineSimilarity(a, b) ==
  IF Len(a) # Len(b)
  THEN [threw |-> TRUE, error |-> "Vectors must have the same length", value |-> NaN]
  ELSE IF \E i \in 1..Len(a) : ~isFinite(a[i]) \/ ~isFinite(b[i])
       THEN [threw |-> TRUE, error |-> "Vectors must contain finite values", value |-> NaN]
  ELSE CHOOSE out \in { CosineOf(dotProduct, normA, normB) :
                          dotProduct \in { SumProducts(a, b) },
                          normA \in { SumProducts(a, a) },
                          normB \in { SumProducts(b, b) } } : TRUE

\* the embeddings the provider returns in this model: integer vectors of
\* length 5, for which the quotient above is an exact number of thousandths
\* (1000, 960, 800, 600 or 0)
Embeddings == { Vector(<<4, 3>>), Vector(<<3, 4>>), Vector(<<5, 0>>) }

\* ------------------------------------------------------------ cache keys
\* the decimal digits of a non-negative number, as a template literal prints it
RECURSIVE Digits(_)
Digits(n) == IF n < 10 THEN << n >> ELSE Append(Digits(n \div 10), n % 10)

\* A key `issue-${number}` or `pr-${head.sha}` is held as the two parts that
\* key.split('-') yields: the text before the dash and the characters after it
\* (hexadecimal digits 0..15: a digit of a number, or a character of a sha).
issueKey(number) == [itemType |-> "issue", tail |-> Digits(number)]
prKey(sha) == [itemType |-> "pr", tail |-> sha]

\* parseInt(text): the value of the leading decimal digits, NaN without one
RECURSIVE LeadingDigits(_)
LeadingDigits(t) ==
  IF t = << >> \/ Head(t) > 9 THEN << >> ELSE << Head(t) >> \o LeadingDigits(Tail(t))

RECURSIVE DecimalValue(_)
DecimalValue(d) ==
  IF d = << >> THEN 0 ELSE 10 * DecimalValue(SubSeq(d, 1, Len(d) - 1)) + d[Len(d)]

parseInt(t) ==
  IF LeadingDigits(t) = << >> THEN [nan |-> TRUE, value |-> 0]
  ELSE [nan |-> FALSE, value |-> DecimalValue(LeadingDigits(t))]

\* ------------------------------------------------------------- storage
\* a variant that starts a new Map for each entry
MemoryStoreEmbedding_Replace(c, key, embedding) == [k \in {key} |-> embedding]

\* MemoryStorage.storeEmbedding: this.cache.set(key, embedding)
MemoryStoreEmbedding(c, key, embedding) ==
  [k \in (DOMAIN c) \cup {key} |-> IF k = key THEN embedding ELSE c[k]]

\* MemoryStorage.getEmbedding: [found, embedding]
MemoryGetEmbedding(c, key) ==
  IF key \in DOMAIN c THEN [found |-> TRUE, embedding |-> c[key]]
  ELSE [found |-> FALSE, embedding |-> << >>]

\* a variant that returns a stored embedding equal to the query
MemoryFindSimilar_Scan(c, embedding, threshold, limit) ==
  IF limit > 0 /\ \E k \in DOMAIN c : c[k] = embedding
  THEN << [number |-> 0, similarity |-> 1000, type |-> "issue"] >>
  ELSE << >>

\* MemoryStorage.findSimilar
MemoryFindSimilar(c, embedding, threshold, limit) == << >>

\* PostgresStorage.storeEmbedding: INSERT ... ON CONFLICT (key) DO UPDATE SET
\* embedding.  item_number is INTEGER NOT NULL: a key whose tail parses to NaN
\* makes the statement fail.  [threw, rows]
PostgresStoreEmbedding(r, key, embedding) ==
  LET itemNumber == parseInt(key.tail)
  IN IF itemNumber.nan THEN [threw |-> TRUE, rows |-> r]
     ELSE IF \E x \in r : x.key = key
          THEN [threw |-> FALSE,
                rows |-> { IF x.key = key THEN [x EXCEPT !.embedding = embedding] ELSE x
                           : x \in r }]
          ELSE [threw |-> FALSE,
                rows |-> r \cup { [key |-> key, item_number |-> itemNumber.value,
                                   item_type |-> key.itemType, embedding |-> embedding] }]

\* PostgresStorage.getEmbedding
PostgresGetEmbedding(r, key) ==
  IF \E x \in r : x.key = key
  THEN [found |-> TRUE, embedding |-> (CHOOSE x \in r : x.key = key).embedding]
  ELSE [found |-> FALSE, embedding |-> << >>]

\* one row of the SELECT of findSimilar, mapped to a SimilarItem
RowToSimilarItem(x, embedding) ==
  [number |-> x.item_number, similarity |-> cosineSimilarity(x.embedding, embedding).value.m,
   type |-> x.item_type]

\* ORDER BY embedding <=> $1 LIMIT $3 over the rows that passed the WHERE
\* clause, each with its SimilarItem: the first row is one of those of the
\* highest similarity, and so on until the limit.  SQL leaves the order of rows
\* of equal distance open, so this is a set of sequences.
RECURSIVE OrderByLimit(_, _)
OrderByLimit(hits, limit) ==
  IF hits = { } \/ limit <= 0 THEN { << >> }
  ELSE LET nearest == { x \in hits : \A y \in hits : y.item.similarity <= x.item.similarity }
       IN UNION { { << x.item >> \o rest : rest \in OrderByLimit(hits \ {x}, limit - 1) }
                  : x \in nearest }

\* PostgresStorage.findSimilar: the results the query can return: the rows at
\* or above the threshold, by descending similarity, cut to the limit
PostgresFindSimilar(r, embedding, threshold, limit) ==
  LET Hits == { y \in r : GreaterEq(cosineSimilarity(y.embedding, embedding).value,
                                    Fin(threshold)) }
  IN UNION { OrderByLimit(hits, limit)
             : hits \in { { [row |-> y, item |-> RowToSimilarItem(y, embedding)] : y \in Hits } } }

\* ------------------------------------------------------------ GitHubService
\* The requests the two writing methods send; every other method only reads.
NoBody == [heading |-> "", type |-> "", items |-> << >>]

\* a variant that closes the item instead of commenting on it
postIssueComment_Close(issueNumber, body) ==
  { [op |-> "issues.update", issue_number |-> issueNumber, body |-> body,
     labels |-> << >>] }

\* GitHubService.postIssueComment
postIssueComment(issueNumber, body) ==
  { [op |-> "issues.createComment", issue_number |-> issueNumber, body |-> body,
     labels |-> << >>] }

\* GitHubService.postPullRequestComment
postPullRequestComment(pullNumber, body) ==
  { [op |-> "issues.createComment", issue_number |-> pullNumber, body |-> body,
     labels |-> << >>] }

\* GitHubService.addLabels: nothing is sent for an empty list
addLabels(issueNumber, labels) ==
  IF Len(labels) = 0 THEN { }
  ELSE { [op |-> "issues.addLabels", issue_number |-> issueNumber, body |-> NoBody,
          labels |-> labels] }

\* a listing endpoint's pages: the items, newest (highest number) first
RECURSIVE Newest(_)
Newest(S) ==
  IF S = { } THEN << >>
  ELSE LET top == CHOOSE x \in S : \A y \in S : y.number <= x.number
       IN << top >> \o Newest(S \ {top})

\* GitHubService.getIssues: issues.listForRepo returns pull requests too, and
\* they are filtered out
getIssues(items) ==
  SelectSeq(Newest({ items[n] : n \in DOMAIN items }), LAMBDA i : i.type # "pr")

\* GitHubService.getPullRequests: pulls.list
getPullRequests(items) ==
  Newest({ i \in { items[n] : n \in DOMAIN items } : i.type = "pr" })

\* GitHubService.getIssue (issues.get answers for issues and pull requests):
\* the item, when the number exists
getIssue(items, issueNumber) == { items[n] : n \in (DOMAIN items) \cap {issueNumber} }

\* GitHubService.getPullRequest (pulls.get answers for pull requests only)
getPullRequest(items, pullNumber) ==
  { i \in getIssue(items, pullNumber) : i.type = "pr" }

\* ------------------------------------------------------------------ state
VARIABLES
  config,      \* Config: the three feature switches and duplicateThreshold
  event,       \* the item of the event: type, number, head sha
  repoItems,   \* the hosting side: number -> item (type, state, embedding of its text, head sha)
  repoLabels,  \* the names of the repository's labels
  backend,     \* createStorage: "memory" or "postgres"
  cache,       \* MemoryStorage.cache: key -> embedding
  rows,        \* the prism_embeddings table
  procPc,      \* processIssue / processPullRequest: idle, awaiting, resolved, rejected
  dupPc,       \* detectIssueDuplicate / detectPrDuplicate: the await it stands at
  dup,         \* its locals
  revPc,       \* generatePrReview
  review,      \* its locals
  labPc,       \* suggestIssueLabels / suggestPrLabels
  suggestion,  \* its locals
  apiWrites,   \* the writing requests sent to the hosting API, with the task that sent them
  judgeCalls,  \* the candidate lists handed to LLMService.detectDuplicate
  llm,         \* one call of LLMService.parseLlmResponse
  call         \* one call of a function or a storage method: arguments and result

envVars == << config, event, repoItems, repoLabels, backend >>
storeVars == << cache, rows >>
dupVars == << dupPc, dup, judgeCalls >>
revVars == << revPc, review >>
labVars == << labPc, suggestion >>
vars == << config, event, repoItems, repoLabels, backend, cache, rows, procPc, dupPc, dup,
           revPc, review, labPc, suggestion, apiWrites, judgeCalls, llm, call >>

\* ------------------------------------------------------- the environment
\* the embedding the provider returns for the text of the event's item
SelfEmbedding == Vector(<<4, 3>>)

\* head shas of the event's pull request: "a1..." and "2b..."
Shas == { <<10, 1>>, <<2, 11>> }

\* the siblings a repository may hold: open or closed, close to or further
\* from the event's item (similarity 960 or 800)
SiblingKinds ==
  { [state |-> "open", emb |-> Vector(<<3, 4>>)], [state |-> "closed", emb |-> Vector(<<3, 4>>)],
    [state |-> "open", emb |-> Vector(<<5, 0>>)] }

\* the one item of the other type that every repository of the model holds
OtherNumber == MaxSiblings + 2
OtherType(t) == IF t = "issue" THEN "pr" ELSE "issue"

Repository(t, kinds) ==
  [n \in {1} \cup (DOMAIN kinds) \cup {OtherNumber} |->
     IF n = 1 THEN [number |-> 1, type |-> t, state |-> "open", emb |-> SelfEmbedding,
                    sha |-> << >>]
     ELSE IF n = OtherNumber
          THEN [number |-> n, type |-> OtherType(t), state |-> "open", emb |-> Vector(<<3, 4>>),
                sha |-> << n, 15 >>]
          ELSE [number |-> n, type |-> t, state |-> kinds[n].state, emb |-> kinds[n].emb,
                sha |-> << n, 12 >>]]

\* a variant that keys every item by its number
ItemKey_ByNumber(item) == issueKey(item.number)

\* the content-identity key of a listed item
ItemKey(item) == IF item.type = "issue" THEN issueKey(item.number) ELSE prKey(item.sha)

\* the row an earlier run has left for an item
RowOf(item) ==
  [key |-> ItemKey(item), item_number |-> parseInt(ItemKey(item).tail).value,
   item_type |-> item.type, embedding |-> item.emb]

\* the head sha of the event's pull request before its last push: "7c..."
PreviousSha == << 7, 12 >>

\* the row an earlier run has left for the event's item: for an issue under
\* the same key, for a pull request under the key of the previous head sha;
\* the text, and with it the embedding, was another one then
OwnEarlierRow(item) ==
  LET key == IF item.type = "issue" THEN issueKey(item.number) ELSE prKey(PreviousSha)
  IN [key |-> key, item_number |-> parseInt(key.tail).value, item_type |-> item.type,
      embedding |-> Vector(<<5, 0>>)]

\* what the table may hold when the run starts: of the other items nothing, the
\* siblings, or the siblings and the item of the other type; of the event's
\* item nothing or the row of an earlier run
InitialRows(items) ==
  LET sib == { RowOf(items[n]) : n \in (DOMAIN items) \ {1, OtherNumber} }
  IN { own \cup others : own \in { { }, { OwnEarlierRow(items[1]) } },
                         others \in { { }, sib, sib \cup { RowOf(items[OtherNumber]) } } }

NoResult == [isDuplicate |-> FALSE, similarItems |-> << >>, reasoning |-> "none"]

\* the fallback of LLMService.detectDuplicate
FallbackVerdict == [isDuplicate |-> FALSE, similarItems |-> << >>, reasoning |-> "fallback"]

DupInit ==
  [embedding |-> << >>, list |-> << >>, idx |-> 0, similarities |-> << >>,
   similarItems |-> << >>, withBody |-> << >>, result |-> NoResult, outcome |-> "none",
   embedded |-> << >>]

NoReview == [summary |-> "none", suggestedLabels |-> << >>]
NoSuggestion == [labels |-> << >>, reasoning |-> "none"]

NoValue == [kind |-> "none", value |-> << >>]

LlmIdle ==
  [method |-> "none", state |-> "idle", attempt |-> 0, calls |-> 0, log |-> << >>,
   result |-> NoValue]

\* no function call of its own is under way
NoCall == [fn |-> "none"]

\* the state in which processIssue / processPullRequest is called
TriageInit ==
  /\ \E t \in {"issue", "pr"}, sha \in Shas :
       /\ event = [type |-> t, number |-> 1, sha |-> IF t = "pr" THEN sha ELSE << >>]
       /\ \E k \in 0..MaxSiblings : \E kinds \in [2..(k + 1) -> SiblingKinds] :
            repoItems = [Repository(t, kinds) EXCEPT ![1].sha = IF t = "pr" THEN sha ELSE << >>]
  /\ config \in [enableDuplicateDetection : BOOLEAN, enablePrReview : BOOLEAN,
                 enableLabeling : BOOLEAN, duplicateThreshold : {850}]
  /\ repoLabels = << "bug", "duplicate" >>
  /\ backend \in {"memory", "postgres"}
  /\ cache = << >>
  /\ rows \in (IF backend = "postgres" THEN InitialRows(repoItems) ELSE { { } })
  /\ procPc = "idle"
  /\ dupPc = "idle" /\ dup = DupInit
  /\ revPc = "idle" /\ review = NoReview
  /\ labPc = "idle" /\ suggestion = NoSuggestion
  /\ apiWrites = { }
  /\ judgeCalls = { }

Init == TriageInit /\ llm = LlmIdle /\ call = NoCall

\* ------------------------------------------------ calls that leave the process
\* Under run() the table prism_embeddings may not exist: a statement on it
\* fails with 'relation "prism_embeddings" does not exist'.
SchemaMissing == call.fn = "run" /\ backend = "postgres" /\ ~call.exists

\* LLMService.generateEmbedding: the provider's vector for the item's text, or
\* the provider's error
generateEmbedding(item) ==
  { [threw |-> FALSE, embedding |-> item.emb], [threw |-> TRUE, embedding |-> << >>] }

\* StorageBackend.storeEmbedding on the backend in use: the outcomes
\* [threw, cache, rows]; the Postgres pool may also fail to connect
storeEmbedding(key, embedding) ==
  IF backend = "memory"
  THEN { [threw |-> FALSE, cache |-> MemoryStoreEmbedding(cache, key, embedding),
          rows |-> rows] }
  ELSE IF SchemaMissing THEN { [threw |-> TRUE, cache |-> cache, rows |-> rows] }
  ELSE LET r == PostgresStoreEmbedding(rows, key, embedding)
       IN { [threw |-> r.threw, cache |-> cache, rows |-> r.rows],
            [threw |-> TRUE, cache |-> cache, rows |-> rows] }

\* StorageBackend.findSimilar on the backend in use: the outcomes [threw, items]
findSimilar(embedding, threshold, limit) ==
  IF backend = "memory"
  THEN { [threw |-> FALSE, items |-> MemoryFindSimilar(cache, embedding, threshold, limit)] }
  ELSE IF SchemaMissing THEN { [threw |-> TRUE, items |-> << >>] }
  ELSE { [threw |-> FALSE, items |-> f] :
           f \in PostgresFindSimilar(rows, embedding, threshold, limit) }
       \cup { [threw |-> TRUE, items |-> << >>] }

\* the similarity values a judge may attach to an item: 0.2, 0.8, 0.93, and the
\* percent-scale values 2 and 86.6
JudgedSimilarities == { 200, 800, 930, 2000, 86600 }

\* verdict.similarItems: a curated subset of the candidates, in their order
JudgedLists(cands) ==
  UNION { { [i \in 1..k |-> [number |-> cands[pick[i]].number, similarity |-> sims[i]]] :
              pick \in { f \in [1..k -> 1..Len(cands)] : \A i \in 1..(k - 1) : f[i] < f[i + 1] },
              sims \in [1..k -> JudgedSimilarities] }
          : k \in 0..MaxJudged }

\* LLMService.detectDuplicate: a verdict that passed DuplicateResultSchema, or
\* the fallback
detectDuplicate(cands) ==
  { FallbackVerdict }
  \cup { [isDuplicate |-> b, similarItems |-> l, reasoning |-> "llm"] :
           b \in BOOLEAN, l \in JudgedLists(cands) }

SuggestedLabelLists == { << >>, << "bug", "not-in-repo" >>, << "not-in-repo" >> }

\* LLMService.generatePrReview: a review that passed PrReviewSchema, or the fallback
generatePrReview ==
  { [summary |-> "AI review unavailable.", suggestedLabels |-> << >>] }
  \cup { [summary |-> "llm", suggestedLabels |-> l] : l \in SuggestedLabelLists }

\* LLMService.suggestLabels: a suggestion that passed LabelSuggestionSchema, or
\* the fallback
suggestLabels ==
  { [labels |-> << >>, reasoning |-> "Unable to parse label suggestions."] }
  \cup { [labels |-> l, reasoning |-> "llm"] : l \in SuggestedLabelLists }

\* ------------------------------------------------------------ TriageService
\* a variant without the catch block: the task's promise rejects
OnError_Rethrow == "rejected"

\* the catch block that ends every feature task: the error is logged and the
\* task's promise resolves
OnError == "caught"

Settled(pc) == pc \in {"off", "done", "caught"}

\* a variant that resolves with the first task that resolves
PromiseAll_Race(pcs) ==
  IF \E i \in 1..Len(pcs) : pcs[i] = "rejected" THEN "rejected"
  ELSE IF \E i \in 1..Len(pcs) : pcs[i] \in {"done", "caught"} THEN "resolved"
  ELSE IF \A i \in 1..Len(pcs) : pcs[i] = "off" THEN "resolved"
  ELSE "awaiting"

\* await Promise.all(tasks): rejects with the first rejection, resolves when
\* every task has resolved
PromiseAll(pcs) ==
  IF \E i \in 1..Len(pcs) : pcs[i] = "rejected" THEN "rejected"
  ELSE IF \A i \in 1..Len(pcs) : Settled(pcs[i]) THEN "resolved"
  ELSE "awaiting"

Sent(by, requests) == { [by |-> by, req |-> q] : q \in requests }

\* a variant in which duplicate detection does not await the embedding
processStart_NoEmbedAwait ==
  /\ procPc = "idle"
  /\ procPc' = "awaiting"
  /\ dupPc' = IF config.enableDuplicateDetection THEN "store" ELSE "off"
  /\ revPc' = IF event.type = "pr" /\ config.enablePrReview THEN "fetch" ELSE "off"
  /\ labPc' = IF config.enableLabeling THEN "labels" ELSE "off"
  /\ UNCHANGED << envVars, storeVars, dup, judgeCalls, review, suggestion, apiWrites, llm, call >>

\* processIssue / processPullRequest up to the await: the enabled tasks are
\* started (a review only for a pull request)
processStart ==
  /\ procPc = "idle"
  /\ procPc' = "awaiting"
  /\ dupPc' = IF config.enableDuplicateDetection THEN "embed" ELSE "off"
  /\ revPc' = IF event.type = "pr" /\ config.enablePrReview THEN "fetch" ELSE "off"
  /\ labPc' = IF config.enableLabeling THEN "labels" ELSE "off"
  /\ UNCHANGED << envVars, storeVars, dup, judgeCalls, review, suggestion, apiWrites, llm, call >>

\* the await Promise.all(tasks) of processIssue / processPullRequest settles
processSettle ==
  /\ procPc = "awaiting"
  /\ PromiseAll(<< dupPc, revPc, labPc >>) # "awaiting"
  /\ procPc' = PromiseAll(<< dupPc, revPc, labPc >>)
  /\ UNCHANGED << envVars, storeVars, dupVars, revVars, labVars, apiWrites, llm, call >>

\* the cache key of the event's item: `issue-${number}` or `pr-${head.sha}`
cacheKey == IF event.type = "issue" THEN issueKey(event.number) ELSE prKey(event.sha)

DupFails == dupPc' = OnError /\ dup' = [dup EXCEPT !.outcome = "error"]

\* a variant that goes on with a zero vector when the provider fails
detectDuplicate_Embed_Placeholder ==
  /\ dupPc = "embed"
  /\ \E r \in generateEmbedding(repoItems[event.number]) :
       /\ dupPc' = "store"
       /\ dup' = [dup EXCEPT !.embedding = IF r.threw THEN Vector(<<0, 0>>) ELSE r.embedding,
                             !.embedded = Append(@, event.number)]
  /\ UNCHANGED << envVars, storeVars, procPc, judgeCalls, revVars, labVars, apiWrites, llm, call >>

\* detectIssueDuplicate / detectPrDuplicate: await llm.generateEmbedding(text)
detectDuplicate_Embed ==
  /\ dupPc = "embed"
  /\ \E r \in generateEmbedding(repoItems[event.number]) :
       IF r.threw THEN DupFails
       ELSE /\ dupPc' = "store"
            /\ dup' = [dup EXCEPT !.embedding = r.embedding,
                                  !.embedded = Append(@, event.number)]
  /\ UNCHANGED << envVars, storeVars, procPc, judgeCalls, revVars, labVars, apiWrites, llm, call >>

\* await storage.storeEmbedding(cacheKey, embedding)
detectDuplicate_Store ==
  /\ dupPc = "store"
  /\ \E r \in storeEmbedding(cacheKey, dup.embedding) :
       /\ cache' = r.cache
       /\ rows' = r.rows
       /\ IF r.threw THEN DupFails ELSE dupPc' = "query" /\ dup' = dup
  /\ UNCHANGED << envVars, procPc, judgeCalls, revVars, labVars, apiWrites, llm, call >>

\* a variant that filters by type only
FilterFromDb_TypeOnly(items, excludeNumber, type) ==
  SelectSeq(items, LAMBDA item : item.type = type)

\* findSimilarIssues / findSimilarPrs: what is kept of a non-empty store result
FilterFromDb(items, excludeNumber, type) ==
  SelectSeq(items, LAMBDA item : item.number # excludeNumber /\ item.type = type)

\* a variant that falls back to the scan when the filter has left nothing
findSimilar_Query_FilteredFallback ==
  /\ dupPc = "query"
  /\ \E r \in findSimilar(dup.embedding, config.duplicateThreshold, findSimilarLimit) :
       IF r.threw THEN DupFails
       ELSE IF Len(FilterFromDb(r.items, event.number, event.type)) > 0
            THEN /\ dupPc' = "found"
                 /\ dup' = [dup EXCEPT !.similarItems =
                                          FilterFromDb(r.items, event.number, event.type)]
            ELSE dupPc' = "list" /\ dup' = dup
  /\ UNCHANGED << envVars, storeVars, procPc, judgeCalls, revVars, labVars, apiWrites, llm, call >>

\* findSimilarIssues / findSimilarPrs: await storage.findSimilar(...) and the
\* return of a non-empty result
findSimilar_Query ==
  /\ dupPc = "query"
  /\ \E r \in findSimilar(dup.embedding, config.duplicateThreshold, findSimilarLimit) :
       IF r.threw THEN DupFails
       ELSE IF Len(r.items) > 0
            THEN /\ dupPc' = "found"
                 /\ dup' = [dup EXCEPT !.similarItems =
                                          FilterFromDb(r.items, event.number, event.type)]
            ELSE dupPc' = "list" /\ dup' = dup
  /\ UNCHANGED << envVars, storeVars, procPc, judgeCalls, revVars, labVars, apiWrites, llm, call >>

\* the fallback: await github.getIssues / getPullRequests
findSimilar_List ==
  /\ dupPc = "list"
  /\ \/ /\ dupPc' = "scan"
        /\ dup' = [dup EXCEPT !.idx = 1,
                              !.list = IF event.type = "issue" THEN getIssues(repoItems)
                                       ELSE getPullRequests(repoItems)]
     \/ DupFails
  /\ UNCHANGED << envVars, storeVars, procPc, judgeCalls, revVars, labVars, apiWrites, llm, call >>

\* a variant that skips a sibling whose embedding or store call fails
findSimilar_Scan_SkipFailed ==
  /\ dupPc = "scan"
  /\ dup.idx <= Len(dup.list)
  /\ LET item == dup.list[dup.idx]
         skipped == dupPc' = dupPc /\ dup' = [dup EXCEPT !.idx = @ + 1]
     IN \/ /\ item.number = event.number
           /\ skipped
           /\ UNCHANGED storeVars
        \/ /\ item.number # event.number
           /\ \E e \in generateEmbedding(item) :
                IF e.threw \/ cosineSimilarity(dup.embedding, e.embedding).threw
                THEN skipped /\ UNCHANGED storeVars
                ELSE \E r \in storeEmbedding(ItemKey(item), e.embedding) :
                       /\ cache' = r.cache
                       /\ rows' = r.rows
                       /\ IF r.threw THEN skipped
                          ELSE LET similarity == cosineSimilarity(dup.embedding, e.embedding).value
                               IN /\ dupPc' = dupPc
                                  /\ dup' = [dup EXCEPT
                                       !.idx = @ + 1,
                                       !.embedded = Append(@, item.number),
                                       !.similarities =
                                          IF GreaterEq(similarity, Fin(config.duplicateThreshold))
                                          THEN Append(@, [number |-> item.number,
                                                          similarity |-> similarity.m,
                                                          type |-> event.type])
                                          ELSE @]
  /\ UNCHANGED << envVars, procPc, judgeCalls, revVars, labVars, apiWrites, llm, call >>

\* one turn of the loop over the listed items: the item itself is skipped; a
\* sibling is embedded, compared, pushed when at or above the threshold, and
\* its embedding stored
findSimilar_Scan ==
  /\ dupPc = "scan"
  /\ dup.idx <= Len(dup.list)
  /\ LET item == dup.list[dup.idx]
     IN \/ /\ item.number = event.number
           /\ dupPc' = dupPc
           /\ dup' = [dup EXCEPT !.idx = @ + 1]
           /\ UNCHANGED storeVars
        \/ /\ item.number # event.number
           /\ \E e \in generateEmbedding(item) :
                IF e.threw \/ cosineSimilarity(dup.embedding, e.embedding).threw
                THEN DupFails /\ UNCHANGED storeVars
                ELSE \E r \in storeEmbedding(ItemKey(item), e.embedding) :
                       /\ cache' = r.cache
                       /\ rows' = r.rows
                       /\ IF r.threw THEN DupFails
                          ELSE LET similarity == cosineSimilarity(dup.embedding, e.embedding).value
                               IN /\ dupPc' = dupPc
                                  /\ dup' = [dup EXCEPT
                                       !.idx = @ + 1,
                                       !.embedded = Append(@, item.number),
                                       !.similarities =
                                          IF GreaterEq(similarity, Fin(config.duplicateThreshold))
                                          THEN Append(@, [number |-> item.number,
                                                          similarity |-> similarity.m,
                                                          type |-> event.type])
                                          ELSE @]
  /\ UNCHANGED << envVars, procPc, judgeCalls, revVars, labVars, apiWrites, llm, call >>

\* the end of the loop: sort by descending similarity, keep the first 10
findSimilar_Return ==
  /\ dupPc = "scan"
  /\ dup.idx > Len(dup.list)
  /\ dupPc' = "found"
  /\ dup' = [dup EXCEPT !.similarItems = Slice(SortDesc(dup.similarities), findSimilarLimit)]
  /\ UNCHANGED << envVars, storeVars, procPc, judgeCalls, revVars, labVars, apiWrites, llm, call >>

\* the full item of a candidate: getIssue for an issue, getPullRequest for a PR
FullItem(number) ==
  IF event.type = "issue" THEN getIssue(repoItems, number) ELSE getPullRequest(repoItems, number)

\* a variant without the early return: an empty candidate list is judged too
detectDuplicate_Found_NoReturn ==
  /\ dupPc = "found"
  /\ LET top == Slice(dup.similarItems, judgeCandidateLimit)
     IN \/ IF \A i \in 1..Len(top) : FullItem(top[i].number) # { }
           THEN /\ dupPc' = "judge"
                /\ dup' = [dup EXCEPT !.withBody =
                             [i \in 1..Len(top) |-> [number |-> top[i].number,
                                                     similarity |-> top[i].similarity]]]
           ELSE DupFails
        \/ DupFails
  /\ UNCHANGED << envVars, storeVars, procPc, judgeCalls, revVars, labVars, apiWrites, llm, call >>

\* no similar item: return.  Otherwise await Promise.all of the full items of
\* the first 5 candidates; one failed request fails them all
detectDuplicate_Found ==
  /\ dupPc = "found"
  /\ \/ /\ Len(dup.similarItems) = 0
        /\ dupPc' = "done"
        /\ dup' = [dup EXCEPT !.outcome = "no_similar"]
     \/ /\ Len(dup.similarItems) > 0
        /\ LET top == Slice(dup.similarItems, judgeCandidateLimit)
           IN IF \A i \in 1..Len(top) : FullItem(top[i].number) # { }
              THEN /\ dupPc' = "judge"
                   /\ dup' = [dup EXCEPT !.withBody =
                                [i \in 1..Len(top) |-> [number |-> top[i].number,
                                                        similarity |-> top[i].similarity]]]
              ELSE DupFails
     \/ /\ Len(dup.similarItems) > 0
        /\ DupFails
  /\ UNCHANGED << envVars, storeVars, procPc, judgeCalls, revVars, labVars, apiWrites, llm, call >>

\* a variant that posts for every verdict
ShouldPost_Always(result) == TRUE

\* the condition under which the comment is posted
ShouldPost(result) == result.isDuplicate /\ Len(result.similarItems) > 0

\* (item.similarity * 100).toFixed(1), in tenths of a percent
Percentage(similarity) == (similarity * 100 * 10) \div 1000

\* formatDuplicateComment: the heading and one line per item of the verdict
formatDuplicateComment(result, type) ==
  [heading |-> "Potential Duplicate Detected", type |-> type,
   items |-> [i \in 1..Len(result.similarItems) |->
                [number |-> result.similarItems[i].number,
                 percentage |-> Percentage(result.similarItems[i].similarity)]]]

\* the comment request of detectIssueDuplicate / detectPrDuplicate
PostDuplicateComment(result) ==
  IF event.type = "issue"
  THEN postIssueComment(event.number, formatDuplicateComment(result, "issue"))
  ELSE postPullRequestComment(event.number, formatDuplicateComment(result, "pr"))

\* await llm.detectDuplicate(title, body, candidates), then the comment is
\* sent or the item is logged as no duplicate
detectDuplicate_Judge ==
  /\ dupPc = "judge"
  /\ judgeCalls' = judgeCalls \cup { dup.withBody }
  /\ \E result \in detectDuplicate(dup.withBody) :
       IF ShouldPost(result)
       THEN /\ dupPc' = "posting"
            /\ dup' = [dup EXCEPT !.result = result]
            /\ apiWrites' = apiWrites \cup Sent("duplicate", PostDuplicateComment(result))
       ELSE /\ dupPc' = "done"
            /\ dup' = [dup EXCEPT !.result = result, !.outcome = "not_duplicate"]
            /\ apiWrites' = apiWrites
  /\ UNCHANGED << envVars, storeVars, procPc, revVars, labVars, llm, call >>

\* the comment request completes or fails
detectDuplicate_Posted ==
  /\ dupPc = "posting"
  /\ \/ dupPc' = "done" /\ dup' = [dup EXCEPT !.outcome = "posted"]
     \/ DupFails
  /\ UNCHANGED << envVars, storeVars, procPc, judgeCalls, revVars, labVars, apiWrites, llm, call >>

\* formatReviewComment
formatReviewComment(r) == [heading |-> "AI Code Review", type |-> "pr", items |-> << >>]

\* generatePrReview: await Promise.all([getPullRequestDiff, getPullRequestFiles])
generatePrReview_Fetch ==
  /\ revPc = "fetch"
  /\ \/ revPc' = "review"
     \/ revPc' = OnError
  /\ UNCHANGED << envVars, storeVars, procPc, dupVars, review, labVars, apiWrites, llm, call >>

\* await llm.generatePrReview(...), then the review comment is sent
generatePrReview_Review ==
  /\ revPc = "review"
  /\ \E r \in generatePrReview :
       /\ review' = r
       /\ apiWrites' = apiWrites
            \cup Sent("review", postPullRequestComment(event.number, formatReviewComment(r)))
  /\ revPc' = "posting"
  /\ UNCHANGED << envVars, storeVars, procPc, dupVars, labVars, llm, call >>

\* a variant that applies the labels of a review whatever enableLabeling says
generatePrReview_Posted_AnyLabels ==
  /\ revPc = "posting"
  /\ \/ revPc' = IF Len(review.suggestedLabels) > 0 THEN "labels" ELSE "done"
     \/ revPc' = OnError
  /\ UNCHANGED << envVars, storeVars, procPc, dupVars, review, labVars, apiWrites, llm, call >>

\* the comment request completes or fails; the labels of the repository are
\* asked for when labeling is enabled and the review suggests labels
generatePrReview_Posted ==
  /\ revPc = "posting"
  /\ \/ revPc' = IF config.enableLabeling /\ Len(review.suggestedLabels) > 0
                 THEN "labels" ELSE "done"
     \/ revPc' = OnError
  /\ UNCHANGED << envVars, storeVars, procPc, dupVars, review, labVars, apiWrites, llm, call >>

\* the suggested labels that the repository has
ValidReviewLabels(suggested, labels) == FilterIn(suggested, Range(labels))

\* await github.getRepositoryLabels, then the valid labels are added
generatePrReview_Labels ==
  /\ revPc = "labels"
  /\ \/ LET validLabels == ValidReviewLabels(review.suggestedLabels, repoLabels)
        IN IF Len(validLabels) > 0
           THEN /\ revPc' = "labeling"
                /\ apiWrites' = apiWrites \cup Sent("review", addLabels(event.number, validLabels))
           ELSE revPc' = "done" /\ apiWrites' = apiWrites
     \/ revPc' = OnError /\ apiWrites' = apiWrites
  /\ UNCHANGED << envVars, storeVars, procPc, dupVars, review, labVars, llm, call >>

\* the addLabels request completes or fails
generatePrReview_Labeled ==
  /\ revPc = "labeling"
  /\ revPc' \in { "done", OnError }
  /\ UNCHANGED << envVars, storeVars, procPc, dupVars, review, labVars, apiWrites, llm, call >>

\* suggestIssueLabels / suggestPrLabels: await github.getRepositoryLabels
suggestLabels_Fetch ==
  /\ labPc = "labels"
  /\ \/ labPc' = "suggest"
     \/ labPc' = OnError
  /\ UNCHANGED << envVars, storeVars, procPc, dupVars, revVars, suggestion, apiWrites, llm, call >>

\* the labels that suggestIssueLabels / suggestPrLabels hand to addLabels
LabelsToApply(suggested, labels) == suggested

\* await llm.suggestLabels(title, body, type, repoLabels), then the labels are
\* added when there are any
suggestLabels_Suggest ==
  /\ labPc = "suggest"
  /\ \E sg \in suggestLabels :
       /\ suggestion' = sg
       /\ IF Len(sg.labels) > 0
          THEN /\ labPc' = "labeling"
               /\ apiWrites' = apiWrites
                    \cup Sent("labels", addLabels(event.number, LabelsToApply(sg.labels, repoLabels)))
          ELSE labPc' = "done" /\ apiWrites' = apiWrites
  /\ UNCHANGED << envVars, storeVars, procPc, dupVars, revVars, llm, call >>

\* the addLabels request completes or fails
suggestLabels_Applied ==
  /\ labPc = "labeling"
  /\ labPc' \in { "done", OnError }
  /\ UNCHANGED << envVars, storeVars, procPc, dupVars, revVars, suggestion, apiWrites, llm, call >>

Next ==
  \/ processStart
  \/ processSettle
  \/ detectDuplicate_Embed
  \/ detectDuplicate_Store
  \/ findSimilar_Query
  \/ findSimilar_List
  \/ findSimilar_Scan
  \/ findSimilar_Return
  \/ detectDuplicate_Found
  \/ detectDuplicate_Judge
  \/ detectDuplicate_Posted
  \/ generatePrReview_Fetch
  \/ generatePrReview_Review
  \/ generatePrReview_Posted
  \/ generatePrReview_Labels
  \/ generatePrReview_Labeled
  \/ suggestLabels_Fetch
  \/ suggestLabels_Suggest
  \/ suggestLabels_Applied

Spec == Init /\ [][Next]_vars

\* ---------------------------------------------- LLMService.parseLlmResponse
Methods == { "detectDuplicate", "generatePrReview", "suggestLabels", "assessVisionAlignment" }

\* the fallback each judgment call hands to parseLlmResponse
Fallback(method) ==
  CASE method = "detectDuplicate" -> [isDuplicate |-> FALSE, similarItems |-> << >>]
    [] method = "generatePrReview" ->
         [findings |-> << >>, suggestedLabels |-> << >>, estimatedComplexity |-> "low"]
    [] method = "suggestLabels" -> [labels |-> << >>]
    [] method = "assessVisionAlignment" -> [fit |-> "neutral", score |-> 500]

\* a value of the method's schema, as a model may answer it
Answer(method) ==
  CASE method = "detectDuplicate" ->
         [isDuplicate |-> TRUE, similarItems |-> << [number |-> 2, similarity |-> 930] >>]
    [] method = "generatePrReview" ->
         [findings |-> << "critical" >>, suggestedLabels |-> << "bug" >>,
          estimatedComplexity |-> "high"]
    [] method = "suggestLabels" -> [labels |-> << "bug" >>]
    [] method = "assessVisionAlignment" -> [fit |-> "aligned", score |-> 900]

\* What one call of responseFactory yields: a rejected request, or a message
\* content: null, or a text that wraps ("bare", in a code fence, inside prose)
\* a payload that is a value of the schema ("valid"), JSON of another shape
\* ("other") or no JSON ("broken").
Responses ==
  { [threw |-> TRUE, wrap |-> "none", payload |-> "none"],
    [threw |-> FALSE, wrap |-> "null", payload |-> "none"] }
  \cup { [threw |-> FALSE, wrap |-> w, payload |-> p] :
           w \in {"bare", "fenced", "prose"}, p \in {"valid", "other", "broken"} }

\* LLMService.sanitizeJson: '' for null; the inside of the code fence; the text
\* from the first { to the last }; the trimmed text.  What is left is the
\* payload, or the empty text.
sanitizeJson(content) == IF content.wrap = "null" THEN "empty" ELSE content.payload

\* JSON.parse succeeds on JSON text
JsonParses(text) == text \in {"valid", "other"}

\* schema.parse succeeds on a value of the schema
SchemaAccepts(text) == text = "valid"

\* the try block of one attempt returns a value
AttemptReturns(response) ==
  /\ ~response.threw
  /\ JsonParses(sanitizeJson(response))
  /\ SchemaAccepts(sanitizeJson(response))

\* the catch of one attempt: it has no condition, every failure of the try
\* block is swallowed
AttemptCatches(response) == TRUE

\* a variant with one turn too many
MayAttempt_OneMore(attempt) == attempt <= parseRetryCount + 1

\* the condition of the for loop
MayAttempt(attempt) == attempt <= parseRetryCount

\* a judgment call starts: parseLlmResponse(responseFactory, schema, fallback)
parseLlmResponse_Call ==
  /\ llm.state = "idle"
  /\ \E m \in Methods : llm' = [LlmIdle EXCEPT !.method = m, !.state = "running"]
  /\ UNCHANGED << envVars, storeVars, procPc, dupVars, revVars, labVars, apiWrites, call >>

\* one turn of the loop: the provider is called once; the value is returned,
\* or the failure is swallowed and the next attempt follows
parseLlmResponse_Attempt ==
  /\ llm.state = "running"
  /\ MayAttempt(llm.attempt)
  /\ \E response \in Responses :
       llm' = IF AttemptReturns(response)
              THEN [llm EXCEPT !.calls = @ + 1, !.log = Append(@, response),
                               !.state = "returned",
                               !.result = [kind |-> "parsed", value |-> Answer(llm.method)]]
              ELSE IF AttemptCatches(response)
                   THEN [llm EXCEPT !.calls = @ + 1, !.log = Append(@, response),
                                    !.attempt = @ + 1]
                   ELSE [llm EXCEPT !.calls = @ + 1, !.log = Append(@, response),
                                    !.state = "threw"]
  /\ UNCHANGED << envVars, storeVars, procPc, dupVars, revVars, labVars, apiWrites, call >>

\* the loop is over: return fallback
parseLlmResponse_Fallback ==
  /\ llm.state = "running"
  /\ ~MayAttempt(llm.attempt)
  /\ llm' = [llm EXCEPT !.state = "returned",
                        !.result = [kind |-> "fallback", value |-> Fallback(llm.method)]]
  /\ UNCHANGED << envVars, storeVars, procPc, dupVars, revVars, labVars, apiWrites, call >>

\* the service between two judgment calls
LlmInit ==
  /\ event = [type |-> "issue", number |-> 1, sha |-> << >>]
  /\ repoItems = Repository("issue", << >>)
  /\ config = [enableDuplicateDetection |-> TRUE, enablePrReview |-> TRUE,
               enableLabeling |-> TRUE, duplicateThreshold |-> 850]
  /\ repoLabels = << "bug", "duplicate" >>
  /\ backend = "memory"
  /\ cache = << >>
  /\ rows = { }
  /\ procPc = "idle"
  /\ dupPc = "idle" /\ dup = DupInit
  /\ revPc = "idle" /\ review = NoReview
  /\ labPc = "idle" /\ suggestion = NoSuggestion
  /\ apiWrites = { }
  /\ judgeCalls = { }
  /\ llm = LlmIdle
  /\ call = NoCall

LlmNext ==
  \/ parseLlmResponse_Call
  \/ parseLlmResponse_Attempt
  \/ parseLlmResponse_Fallback

LlmSpec == LlmInit /\ [][LlmNext]_vars

\* ---------------------------------------------- LLMService.cosineSimilarity
\* every variable of the triage run at rest
TriageIdle ==
  /\ event = [type |-> "issue", number |-> 1, sha |-> << >>]
  /\ repoItems = Repository("issue", << >>)
  /\ config = [enableDuplicateDetection |-> TRUE, enablePrReview |-> TRUE,
               enableLabeling |-> TRUE, duplicateThreshold |-> 850]
  /\ repoLabels = << "bug", "duplicate" >>
  /\ procPc = "idle"
  /\ dupPc = "idle" /\ dup = DupInit
  /\ revPc = "idle" /\ review = NoReview
  /\ labPc = "idle" /\ suggestion = NoSuggestion
  /\ apiWrites = { }
  /\ judgeCalls = { }
  /\ llm = LlmIdle

\* the components of the vectors: 0, 3, -3, 4, 1e200, 1e-200, NaN, Infinity
Components ==
  { Fin(0), Fin(3), Fin(-3), Fin(4), Scaled(1, 2), Scaled(1, -2), NaN, Infinity(1) }

\* Math.sqrt is exact on the squared norm of v
ExactRoot(v) ==
  LET n == SumProducts(v, v)
  IN n.k = "fin" => ISqrt(n.m) * ISqrt(n.m) = n.m

\* the vectors of at most MaxDim components with an exact norm
Vectors ==
  { v \in UNION { [1..d -> Components] : d \in 0..MaxDim } : ExactRoot(v) }

\* cosineSimilarity(a, b) is called
CosineInit ==
  /\ TriageIdle
  /\ backend = "memory" /\ cache = << >> /\ rows = { }
  /\ \E a \in Vectors, b \in Vectors :
       call = [fn |-> "cosineSimilarity", state |-> "called", a |-> a, b |-> b,
               result |-> [threw |-> FALSE, error |-> "none", value |-> NaN]]

\* the call throws or returns
cosineSimilarity_Run ==
  /\ call.fn = "cosineSimilarity"
  /\ call.state = "called"
  /\ call' = [call EXCEPT !.state = "done", !.result = cosineSimilarity(call.a, call.b)]
  /\ UNCHANGED << envVars, storeVars, procPc, dupVars, revVars, labVars, apiWrites, llm >>

CosineNext == cosineSimilarity_Run

CosineSpec == CosineInit /\ [][CosineNext]_vars

\* ----------------------------------------------------- scoreBacklogItem
\* In this part a number [fin, m, 0] stands for m / 1000: a similarity of 0.96
\* is Fin(960), a count of 2 findings Fin(2000), a score of 35 Fin(35000).

\* Math.min and Math.max: NaN when an operand is NaN or undefined
MathMin(x, y) ==
  IF x.k \in {"nan", "undefined"} \/ y.k \in {"nan", "undefined"} THEN NaN
  ELSE IF Less(y, x) THEN y ELSE x

MathMax(x, y) ==
  IF x.k \in {"nan", "undefined"} \/ y.k \in {"nan", "undefined"} THEN NaN
  ELSE IF Less(x, y) THEN y ELSE x

\* clamp: Math.max(min, Math.min(max, value))
clamp(value, min, max) == MathMax(min, MathMin(max, value))

\* value ?? 0
OrZero(value) == IF value.k = "undefined" THEN Fin(0) ELSE value

\* x * t / 10, for the factors 1.5 and 0.5
TimesTenths(x, t) ==
  IF x.k = "fin" THEN Scaled((x.m * t) \div 10, x.e) ELSE Times(x, Fin(t))

\* Math.round: to the nearest integer, a half upwards
MathRound(x) ==
  IF x.k = "fin" /\ x.e = 0 THEN Fin(((x.m + 500) \div 1000) * 1000) ELSE x

\* a reason without a number in it, and one that starts with a number
Reason(text) == [text |-> text, count |-> undefined]
CountReason(count, text) == [text |-> text, count |-> count]

\* scoreBacklogItem: [score, reasons]
scoreBacklogItem(input) ==
  LET similarity == clamp(IF isFinite(input.duplicateSimilarity)
                          THEN input.duplicateSimilarity ELSE Fin(0), Fin(0), Fin(1000))
      dedupe ==
        IF input.dedupeStatus = "duplicate"
        THEN [add |-> Fin(55000), reasons |-> << Reason("High duplicate likelihood") >>]
        ELSE IF input.dedupeStatus = "related"
             THEN [add |-> Fin(25000), reasons |-> << Reason("Moderate duplicate signal") >>]
             ELSE [add |-> Fin(0), reasons |-> << Reason("No duplicate overlap detected") >>]
      semantic ==
        [add |-> Times(similarity, Fin(30)),
         reasons |-> IF Less(Fin(900), similarity)
                     THEN << Reason("Very high semantic similarity") >>
                     ELSE IF Less(Fin(750), similarity)
                          THEN << Reason("Strong semantic similarity") >>
                          ELSE << >>]
      critical == clamp(OrZero(input.severityCounts.critical), Fin(0), Fin(10000))
      major == clamp(OrZero(input.severityCounts.major), Fin(0), Fin(20000))
      minor == clamp(OrZero(input.severityCounts.minor), Fin(0), Fin(30000))
      severity ==
        IF input.itemType = "pr" /\ input.severityCounts.present
        THEN [add |-> Plus(Plus(Times(critical, Fin(3)), TimesTenths(major, 15)),
                           TimesTenths(minor, 5)),
              reasons |-> (IF Less(Fin(0), critical)
                           THEN << CountReason(critical, "critical finding(s)") >>
                           ELSE << >>)
                          \o (IF Less(Fin(0), major)
                              THEN << CountReason(major, "major finding(s)") >> ELSE << >>)]
        ELSE [add |-> Fin(0), reasons |-> << >>]
      complexity ==
        IF input.itemType = "pr" /\ input.reviewComplexity = "high"
        THEN [add |-> Fin(5000), reasons |-> << Reason("High review complexity") >>]
        ELSE IF input.itemType = "pr" /\ input.reviewComplexity = "medium"
             THEN [add |-> Fin(2000), reasons |-> << Reason("Medium review complexity") >>]
             ELSE [add |-> Fin(0), reasons |-> << >>]
      vision ==
        IF input.visionAlignment = "off-track"
        THEN [add |-> Fin(10000), reasons |-> << Reason("Vision alignment mismatch") >>]
        ELSE IF input.visionAlignment = "aligned"
             THEN [add |-> Fin(-5000), reasons |-> << Reason("Aligns with vision goals") >>]
             ELSE IF input.visionAlignment = "neutral"
                  THEN [add |-> Fin(0), reasons |-> << Reason("Vision alignment is neutral") >>]
                  ELSE [add |-> Fin(0), reasons |-> << >>]
      score == Plus(Plus(Plus(Plus(Plus(Fin(10000), dedupe.add), semantic.add),
                              severity.add), complexity.add), vision.add)
  IN [score |-> clamp(MathRound(score), Fin(0), Fin(100000)),
      reasons |-> dedupe.reasons \o semantic.reasons \o severity.reasons
                  \o complexity.reasons \o vision.reasons]

\* the values of duplicateSimilarity: absent, NaN, the infinities, -5, 0, 0.5,
\* 0.8, 0.96, 1 and 42
Similarities ==
  { undefined, NaN, Infinity(1), Infinity(-1), Fin(-5000), Fin(0), Fin(500), Fin(800),
    Fin(960), Fin(1000), Fin(42000) }

Counts(critical, major, minor) ==
  [present |-> TRUE, critical |-> critical, major |-> major, minor |-> minor]

\* the values of severityCounts: absent, empty, the counts 1/2/3, 0/1/1, the
\* caps 10/20/30, negative counts, 500 of each, infinite counts, and a NaN in
\* each place
SeverityCounts ==
  { [present |-> FALSE, critical |-> undefined, major |-> undefined, minor |-> undefined],
    Counts(undefined, undefined, undefined),
    Counts(Fin(1000), Fin(2000), Fin(3000)),
    Counts(Fin(0), Fin(1000), Fin(1000)),
    Counts(Fin(10000), Fin(20000), Fin(30000)),
    Counts(Fin(-1000), Fin(-2000), Fin(-3000)),
    Counts(Fin(500000), Fin(500000), Fin(500000)),
    Counts(Infinity(1), Infinity(1), Infinity(-1)),
    Counts(NaN, Fin(0), Fin(0)),
    Counts(Fin(0), NaN, Fin(0)),
    Counts(Fin(0), Fin(0), NaN) }

ScoreInputs ==
  [itemType : {"issue", "pr"},
   dedupeStatus : {"duplicate", "related", "distinct"},
   duplicateSimilarity : Similarities,
   visionAlignment : {"off-track", "aligned", "neutral", "undefined"},
   severityCounts : SeverityCounts,
   reviewComplexity : {"low", "medium", "high", "undefined"}]

\* scoreBacklogItem(input) is called
ScoreInit ==
  /\ TriageIdle
  /\ backend = "memory" /\ cache = << >> /\ rows = { }
  /\ \E input \in ScoreInputs :
       call = [fn |-> "scoreBacklogItem", state |-> "called", input |-> input,
               result |-> [score |-> undefined, reasons |-> << >>]]

\* the call returns
scoreBacklogItem_Run ==
  /\ call.fn = "scoreBacklogItem"
  /\ call.state = "called"
  /\ call' = [call EXCEPT !.state = "done", !.result = scoreBacklogItem(call.input)]
  /\ UNCHANGED << envVars, storeVars, procPc, dupVars, revVars, labVars, apiWrites, llm >>

ScoreNext == scoreBacklogItem_Run

ScoreSpec == ScoreInit /\ [][ScoreNext]_vars

\* ------------------------------------------------------ StorageBackend
\* The storage methods called one after the other on a database that
\* answers.  exists says whether the table prism_embeddings exists.

\* a variant that creates the table anew
PostgresInitialize_Recreate(exists, r) == [threw |-> FALSE, exists |-> TRUE, rows |-> { }]

\* PostgresStorage.initialize: CREATE EXTENSION / TABLE / INDEX IF NOT EXISTS
PostgresInitialize(exists, r) ==
  [threw |-> FALSE, exists |-> TRUE, rows |-> IF exists THEN r ELSE { }]

\* the keys: "issue-1", "pr-a1" and "pr-2b"
StoreKeys == { issueKey(1) } \cup { prKey(sha) : sha \in Shas }

\* the thresholds (0.85, 0 and -1) and limits handed to findSimilar
StoreThresholds == { 850, 0, -1000 }
StoreLimits == { 0, 10 }

\* the vectors handed to storeEmbedding so far, with one more
LastWritten(written, key, embedding) ==
  [k \in (DOMAIN written) \cup {key} |-> IF k = key THEN embedding ELSE written[k]]

NoAnswer == [threw |-> FALSE, found |-> FALSE, embedding |-> << >>, items |-> << >>]

\* a store just constructed: MemoryStorage with an empty cache, or
\* PostgresStorage on a database with or without the table; written is the
\* vector last handed to storeEmbedding for each key, unprepared says that a
\* method other than initialize was called while the table did not exist
StoreInit ==
  /\ TriageIdle
  /\ backend \in {"memory", "postgres"}
  /\ cache = << >>
  /\ rows = { }
  /\ \E exists \in BOOLEAN :
       call = [fn |-> "createStorage", key |-> issueKey(1), embedding |-> << >>,
               threshold |-> 0, limit |-> 0, result |-> NoAnswer, exists |-> (backend = "memory" \/ exists),
               written |-> << >>, unprepared |-> FALSE]

StoreFrame ==
  UNCHANGED << envVars, procPc, dupVars, revVars, labVars, apiWrites, llm >>

\* initialize()
initialize ==
  /\ call.fn # "none"
  /\ IF backend = "memory"
     THEN /\ call' = [call EXCEPT !.fn = "initialize", !.result = NoAnswer]
          /\ UNCHANGED storeVars
     ELSE LET r == PostgresInitialize(call.exists, rows)
          IN /\ call' = [call EXCEPT !.fn = "initialize", !.exists = r.exists,
                                     !.result = [NoAnswer EXCEPT !.threw = r.threw]]
             /\ rows' = r.rows
             /\ cache' = cache
  /\ StoreFrame

\* storeEmbedding(key, embedding)
storeEmbedding_Call ==
  /\ call.fn # "none"
  /\ \E key \in StoreKeys, embedding \in Embeddings :
       LET noted == [call EXCEPT !.fn = "storeEmbedding", !.key = key,
                                 !.embedding = embedding,
                                 !.written = LastWritten(@, key, embedding)]
       IN IF backend = "memory"
          THEN /\ cache' = MemoryStoreEmbedding(cache, key, embedding)
               /\ rows' = rows
               /\ call' = [noted EXCEPT !.result = NoAnswer]
          ELSE IF ~call.exists
               THEN /\ UNCHANGED storeVars
                    /\ call' = [noted EXCEPT !.result = [NoAnswer EXCEPT !.threw = TRUE],
                                             !.unprepared = TRUE]
               ELSE LET r == PostgresStoreEmbedding(rows, key, embedding)
                    IN /\ rows' = r.rows
                       /\ cache' = cache
                       /\ call' = [noted EXCEPT !.result = [NoAnswer EXCEPT !.threw = r.threw]]
  /\ StoreFrame

\* getEmbedding(key) on the backend in use: [threw, found, embedding]
getEmbedding(key) ==
  IF backend = "memory"
  THEN [threw |-> FALSE] @@ MemoryGetEmbedding(cache, key)
  ELSE IF ~call.exists THEN [threw |-> TRUE, found |-> FALSE, embedding |-> << >>]
       ELSE [threw |-> FALSE] @@ PostgresGetEmbedding(rows, key)

\* getEmbedding(key)
getEmbedding_Call ==
  /\ call.fn # "none"
  /\ \E key \in StoreKeys :
       LET r == getEmbedding(key)
       IN call' = [call EXCEPT !.fn = "getEmbedding", !.key = key, !.embedding = << >>,
                               !.unprepared = @ \/ r.threw,
                               !.result = [NoAnswer EXCEPT !.threw = r.threw,
                                                           !.found = r.found,
                                                           !.embedding = r.embedding]]
  /\ UNCHANGED storeVars
  /\ StoreFrame

\* findSimilar(embedding, threshold, limit)
findSimilar_Call ==
  /\ call.fn # "none"
  /\ \E embedding \in Embeddings, threshold \in StoreThresholds, limit \in StoreLimits :
       IF backend = "postgres" /\ ~call.exists
       THEN call' = [call EXCEPT !.fn = "findSimilar", !.embedding = embedding,
                                 !.threshold = threshold, !.limit = limit,
                                 !.unprepared = TRUE,
                                 !.result = [NoAnswer EXCEPT !.threw = TRUE]]
       ELSE \E items \in (IF backend = "memory"
                          THEN { MemoryFindSimilar(cache, embedding, threshold, limit) }
                          ELSE PostgresFindSimilar(rows, embedding, threshold, limit)) :
              call' = [call EXCEPT !.fn = "findSimilar", !.embedding = embedding,
                                   !.threshold = threshold, !.limit = limit,
                                   !.result = [NoAnswer EXCEPT !.items = items]]
  /\ UNCHANGED storeVars
  /\ StoreFrame

StoreNext ==
  \/ initialize
  \/ storeEmbedding_Call
  \/ getEmbedding_Call
  \/ findSimilar_Call

StoreSpec == StoreInit /\ [][StoreNext]_vars

\* ---------------------------------------------------------------- run()
\* The entry point of the action for an issues or pull_request event: the
\* context is validated, the configuration loaded, the storage created and
\* initialized, the event processed, the storage closed.  call holds where
\* run() stands, whether the table exists, and what it has reported.  (The
\* backlog branch calls TriageService.processBacklog, which this
\* TriageService does not have.)
RunStart ==
  [fn |-> "run", pc |-> "start", eventType |-> "issues", runBacklog |-> FALSE,
   hasRepository |-> TRUE, exists |-> TRUE, initialized |-> FALSE,
   initializeThrew |-> FALSE, outcome |-> "none", closes |-> 0, setFailed |-> FALSE,
   completed |-> FALSE]

\* getEventType() for an issue or pull request payload
EventTypeOf(e) == IF e.type = "issue" THEN "issues" ELSE "pull_request"

\* run() is called, with duplicate detection enabled, on an issue or pull
\* request event or on a schedule / workflow_dispatch event (a backlog run, with
\* run-backlog on or off and with or without a repository in the payload); a
\* Postgres database may lack the table
RunInit ==
  /\ TriageInit
  /\ config.enableDuplicateDetection
  /\ llm = LlmIdle
  /\ \E exists \in BOOLEAN :
       /\ exists \/ (backend = "postgres" /\ rows = { })
       /\ \/ call = [RunStart EXCEPT !.exists = exists, !.eventType = EventTypeOf(event)]
          \/ \E runBacklog \in BOOLEAN, hasRepository \in BOOLEAN :
               call = [RunStart EXCEPT !.exists = exists, !.eventType = "backlog",
                                       !.runBacklog = runBacklog,
                                       !.hasRepository = hasRepository]

RunFrame ==
  UNCHANGED << envVars, cache, procPc, dupVars, revVars, labVars, apiWrites, llm >>

\* a variant in which a failed initialize() is logged and run() goes on
OnInitializeError_Continue == "process"

\* storage.initialize() is awaited outside the inner try: its error reaches
\* the catch of run()
OnInitializeError == "failed"

\* a variant with storage.close() as the last statement of the try block
AfterTriage_NoFinally(threw) == IF threw THEN "failed" ELSE "close"

\* try { ... } finally { await storage.close(); }: the finally block runs
\* whether the try block has thrown or not
AfterTriage(threw) == "close"

\* validateContext() and loadConfig()
run_Start ==
  /\ call.fn = "run" /\ call.pc = "start"
  /\ \/ call' = [call EXCEPT !.pc = "skipped"]
     \/ call' = [call EXCEPT !.pc = "failed", !.setFailed = TRUE]
     \/ call' = [call EXCEPT !.pc = "initialize"]
  /\ rows' = rows
  /\ RunFrame

\* const storage = createStorage(config.databaseUrl); await storage.initialize():
\* the statements succeed, or one of them fails before or after the table is
\* created
run_Initialize ==
  /\ call.fn = "run" /\ call.pc = "initialize"
  /\ IF backend = "memory"
     THEN call' = [call EXCEPT !.pc = "process", !.initialized = TRUE] /\ rows' = rows
     ELSE LET r == PostgresInitialize(call.exists, rows)
              threw == [call EXCEPT !.pc = OnInitializeError, !.initializeThrew = TRUE,
                                    !.setFailed = (OnInitializeError = "failed")]
          IN \/ /\ call' = [call EXCEPT !.pc = "process", !.exists = r.exists,
                                        !.initialized = TRUE]
                /\ rows' = r.rows
             \/ call' = threw /\ rows' = rows
             \/ call' = [threw EXCEPT !.exists = r.exists] /\ rows' = r.rows
  /\ RunFrame

\* await triage.processIssue(payload) / processPullRequest(payload): the steps
\* of the call; a feature task that has been started takes its steps whatever
\* run() does meanwhile
run_Process ==
  /\ call.fn = "run"
  /\ call.eventType # "backlog"
  /\ \/ call.pc = "process" /\ procPc \in {"idle", "awaiting"}
     \/ call.pc # "process" /\ procPc # "idle"
  /\ Next

\* a variant that does not await the call
run_Processed_NoAwait ==
  /\ call.fn = "run" /\ call.pc = "process"
  /\ call.eventType # "backlog"
  /\ procPc \in {"awaiting", "resolved", "rejected"}
  /\ LET threw == procPc = "rejected"
     IN call' = [call EXCEPT !.pc = AfterTriage(threw),
                             !.outcome = IF threw THEN "threw" ELSE "resolved",
                             !.completed = ~threw,
                             !.setFailed = (AfterTriage(threw) = "failed")]
  /\ rows' = rows
  /\ RunFrame

\* the call has settled: 'Triage completed successfully' when it resolved, and
\* in both cases the finally block
run_Processed ==
  /\ call.fn = "run" /\ call.pc = "process"
  /\ call.eventType # "backlog"
  /\ procPc \in {"resolved", "rejected"}
  /\ LET threw == procPc = "rejected"
     IN call' = [call EXCEPT !.pc = AfterTriage(threw),
                             !.outcome = IF threw THEN "threw" ELSE "resolved",
                             !.completed = ~threw,
                             !.setFailed = (AfterTriage(threw) = "failed")]
  /\ rows' = rows
  /\ RunFrame

\* the backlog branch: skipped when run-backlog is off, an Error when the
\* payload has no repository (a schedule event has none), else
\* triage.processBacklog and postBacklogReport, which return or throw
run_Backlog ==
  /\ call.fn = "run" /\ call.pc = "process"
  /\ call.eventType = "backlog"
  /\ \E threw \in BOOLEAN :
       /\ ~call.runBacklog => ~threw
       /\ (call.runBacklog /\ ~call.hasRepository) => threw
       /\ call' = [call EXCEPT !.pc = AfterTriage(threw),
                               !.outcome = IF threw THEN "threw"
                                           ELSE IF call.runBacklog THEN "resolved"
                                           ELSE "skipped",
                               !.completed = ~threw,
                               !.setFailed = (AfterTriage(threw) = "failed")]
  /\ rows' = rows
  /\ RunFrame

\* MemoryStorage.close: this.cache.clear()
MemoryClose(c) == << >>

\* finally: await storage.close() (the Map is cleared, or the pool is ended:
\* the table keeps its rows); an error of the try block or of close() reaches
\* the catch of run()
run_Close ==
  /\ call.fn = "run" /\ call.pc = "close"
  /\ \/ call' = [call EXCEPT !.pc = IF call.outcome = "threw" THEN "failed" ELSE "returned",
                             !.closes = @ + 1,
                             !.setFailed = (call.outcome = "threw")]
     \/ /\ backend = "postgres"
        /\ call' = [call EXCEPT !.pc = "failed", !.closes = @ + 1, !.setFailed = TRUE]
  /\ cache' = IF backend = "memory" THEN MemoryClose(cache) ELSE cache
  /\ rows' = rows
  /\ UNCHANGED << envVars, procPc, dupVars, revVars, labVars, apiWrites, llm >>

RunNext ==
  \/ run_Start
  \/ run_Initialize
  \/ run_Process
  \/ run_Processed
  \/ run_Backlog
  \/ run_Close

RunSpec == RunInit /\ [][RunNext]_vars

\* ------------------------------------------------------ the neighbor search
\* Duplicate detection alone, on repositories of up to MaxScanned siblings, so
\* that the limits of 10 candidates and of 5 judged candidates are passed.

\* the embeddings of the siblings: of similarity 1, 0.96, 0.936, 0.8 and 0.6 to
\* the event's item
SearchEmbeddings ==
  << Vector(<<4, 3>>), Vector(<<3, 4>>), Vector(<<24, 7>>), Vector(<<5, 0>>),
     Vector(<<0, 5>>) >>

\* the items of a repository with k siblings of the event's item: the item,
\* the siblings 2..k+1, and one item of the other type
SearchRepository(t, k) ==
  [n \in 1..(k + 2) |->
     IF n = 1 THEN [number |-> 1, type |-> t, state |-> "open", emb |-> SelfEmbedding,
                    sha |-> << >>]
     ELSE IF n = k + 2
          THEN [number |-> n, type |-> OtherType(t), state |-> "open",
                emb |-> Vector(<<3, 4>>), sha |-> << n % 10, 15, n \div 10 >>]
          ELSE [number |-> n, type |-> t, state |-> "open",
                emb |-> SearchEmbeddings[(n % 5) + 1], sha |-> << n % 10, 12, n \div 10 >>]]

\* processIssue / processPullRequest is called with duplicate detection as the
\* only feature, a threshold of 0.85 or 0.5, and a table that is empty or holds
\* the rows of all other items
SearchInit ==
  /\ \E t \in {"issue", "pr"}, sha \in Shas, k \in 0..MaxScanned :
       /\ event = [type |-> t, number |-> 1, sha |-> IF t = "pr" THEN sha ELSE << >>]
       /\ repoItems = [SearchRepository(t, k) EXCEPT ![1].sha = IF t = "pr" THEN sha ELSE << >>]
  /\ config \in [enableDuplicateDetection : {TRUE}, enablePrReview : {FALSE},
                 enableLabeling : {FALSE}, duplicateThreshold : {850, 500}]
  /\ repoLabels = << "bug", "duplicate" >>
  /\ backend \in {"memory", "postgres"}
  /\ cache = << >>
  /\ rows \in (IF backend = "postgres"
               THEN { { }, { RowOf(repoItems[n]) : n \in (DOMAIN repoItems) \ {1} } }
               ELSE { { } })
  /\ procPc = "idle"
  /\ dupPc = "idle" /\ dup = DupInit
  /\ revPc = "idle" /\ review = NoReview
  /\ labPc = "idle" /\ suggestion = NoSuggestion
  /\ apiWrites = { }
  /\ judgeCalls = { }
  /\ llm = LlmIdle
  /\ call = NoCall

SearchNext ==
  \/ processStart
  \/ processSettle
  \/ detectDuplicate_Embed
  \/ detectDuplicate_Store
  \/ findSimilar_Query
  \/ findSimilar_List
  \/ findSimilar_Scan
  \/ findSimilar_Return
  \/ detectDuplicate_Found
  \/ detectDuplicate_Judge
  \/ detectDuplicate_Posted

SearchSpec == SearchInit /\ [][SearchNext]_vars

\* -------------------------------------------------------------- properties
\* the writing requests one task has sent
SentBy(by) == { w.req : w \in { x \in apiWrites : x.by = by } }

CommentsOn(by, number) ==
  { q \in SentBy(by) : q.op = "issues.createComment" /\ q.issue_number = number }

LabelsOn(by, number) ==
  { q \in SentBy(by) : q.op = "issues.addLabels" /\ q.issue_number = number }

\* the normalization the specification asks for: a value above 1 is divided
\* by 100, and the result is clamped to [0, 1]
Normalized(similarity) ==
  LET scaled == IF similarity > 1000 THEN similarity \div 100 ELSE similarity
  IN IF scaled < 0 THEN 0 ELSE IF scaled > 1000 THEN 1000 ELSE scaled

\* the similarity of the matched candidate of a verdict
MatchedSimilarity(result) ==
  IF Len(result.similarItems) = 0 THEN 0 ELSE Normalized(result.similarItems[1].similarity)

\* the dedupe status the specification derives from a verdict
StatusOfVerdict(result) ==
  IF result.isDuplicate /\ MatchedSimilarity(result) >= config.duplicateThreshold
  THEN "duplicate"
  ELSE IF MatchedSimilarity(result) >= 750 THEN "related" ELSE "distinct"

\* how duplicate detection has treated the item, read off the comment it sent
StatusActedOn ==
  IF \E q \in CommentsOn("duplicate", event.number) :
       q.body.heading = "Potential Duplicate Detected"
  THEN "duplicate"
  ELSE IF \E q \in CommentsOn("duplicate", event.number) :
            q.body.heading = "Potentially Related Issue Detected"
       THEN "related"
       ELSE "distinct"

\* duplicate detection has a verdict and has acted on it
Judged == dup.result.reasoning # "none"

\* C1: the only writing requests sent to the hosting API create a comment or
\* add labels; nothing is closed, merged, edited or deleted.
C1_OnlyCommentsAndLabels ==
  \A w \in apiWrites : w.req.op \in { "issues.createComment", "issues.addLabels" }

C1_Witness ==
  /\ procPc = "resolved"
  /\ \E w \in apiWrites : w.req.op = "issues.createComment" /\ w.by = "duplicate"
  /\ \E w \in apiWrites : w.req.op = "issues.addLabels"

\* C2: the item is treated as a duplicate exactly when the verdict has
\* isDuplicate and the normalized similarity of the matched candidate is at
\* least duplicateThreshold, as related when it is no duplicate and that
\* similarity is at least 0.75, and as distinct in every other case.
C2_StatusFollowsVerdict == Judged => StatusActedOn = StatusOfVerdict(dup.result)

\* C3: a duplicate gets a comment on the source and on the matched target and,
\* with labeling enabled and a 'duplicate' label in the repository, that label
\* on both; a related item gets a comment on both and no label; a distinct
\* item gets no comment.
C3_EffectsFollowStatus ==
  (Judged /\ dupPc = "done" /\ dup.outcome # "error") =>
    LET status == StatusOfVerdict(dup.result)
        target == dup.result.similarItems[1].number
    IN /\ status = "duplicate" =>
            /\ CommentsOn("duplicate", event.number) # { }
            /\ CommentsOn("duplicate", target) # { }
            /\ (config.enableLabeling /\ "duplicate" \in Range(repoLabels)) =>
                 /\ LabelsOn("duplicate", event.number) # { }
                 /\ LabelsOn("duplicate", target) # { }
       /\ status = "related" =>
            /\ CommentsOn("duplicate", event.number) # { }
            /\ CommentsOn("duplicate", target) # { }
            /\ \A q \in SentBy("duplicate") : q.op # "issues.addLabels"
       /\ status = "distinct" => SentBy("duplicate") = { }

\* C4: a similarity of the judge is normalized before it is compared or
\* rendered: no comment shows more than 100%, and a verdict whose similarity
\* is 2 (0.02 once normalized) leads to no comment.
C4_SimilarityNormalized ==
  /\ \A w \in apiWrites : \A i \in 1..Len(w.req.body.items) :
       w.req.body.items[i].percentage <= 1000
  /\ (Judged /\ Len(dup.result.similarItems) > 0
        /\ dup.result.similarItems[1].similarity = 2000) => SentBy("duplicate") = { }

\* C5: no closed or merged item is handed to the judgment call or receives a
\* duplicate comment, so that with every candidate closed nothing is judged.
C5_ClosedCandidatesIgnored ==
  /\ \A cands \in judgeCalls : \A i \in 1..Len(cands) :
       repoItems[cands[i].number].state = "open"
  /\ \A w \in apiWrites :
       (w.by = "duplicate" /\ w.req.op = "issues.createComment") =>
         repoItems[w.req.issue_number].state = "open"

\* C6: on the store path and on the linear scan, no candidate of the neighbor
\* search and no candidate handed to the judgment call has the number of the
\* item itself.
C6_OwnNumberExcluded ==
  /\ \A i \in 1..Len(dup.similarItems) : dup.similarItems[i].number # event.number
  /\ \A i \in 1..Len(dup.similarities) : dup.similarities[i].number # event.number
  /\ \A cands \in judgeCalls : \A i \in 1..Len(cands) : cands[i].number # event.number

\* the store path with the item's own row in the table, matching the query
\* with similarity 1, and a judgment call made
C6_Witness ==
  /\ backend = "postgres"
  /\ \E x \in rows :
       /\ x.key = cacheKey
       /\ x.item_number = event.number
       /\ cosineSimilarity(x.embedding, dup.embedding).value = Fin(1000)
  /\ judgeCalls # { }
  /\ dup.list = << >>

\* C7: when a step of one feature task throws, processIssue /
\* processPullRequest still resolves, and only after every enabled task has
\* come to its end; until then a step of some task can always be taken.
C7_FailureIsolated ==
  /\ procPc # "rejected"
  /\ procPc = "resolved" => Settled(dupPc) /\ Settled(revPc) /\ Settled(labPc)
  /\ procPc \in {"idle", "awaiting"} => ENABLED Next

\* duplicate detection has failed; the review and the label suggestion have
\* sent their requests and the call has resolved
C7_Witness ==
  /\ procPc = "resolved"
  /\ dupPc = "caught"
  /\ revPc = "done" /\ CommentsOn("review", event.number) # { }
  /\ labPc = "done" /\ LabelsOn("labels", event.number) # { }

\* C8: a judgment call asks the provider at most 3 times; it returns the first
\* answer that parses and passes the schema, with no call after it; after 3
\* failed attempts it returns its fallback; it never throws.
C8_BoundedRetryThenFallback ==
  /\ llm.calls <= 3
  /\ llm.state # "threw"
  /\ llm.state = "returned" =>
       /\ llm.calls = Len(llm.log)
       /\ \A i \in 1..(Len(llm.log) - 1) : ~AttemptReturns(llm.log[i])
       /\ \/ /\ llm.result.kind = "parsed"
             /\ AttemptReturns(llm.log[Len(llm.log)])
             /\ llm.result.value = Answer(llm.method)
          \/ /\ llm.result.kind = "fallback"
             /\ llm.calls = 3
             /\ ~AttemptReturns(llm.log[3])
             /\ llm.method = "detectDuplicate" =>
                  llm.result.value = [isDuplicate |-> FALSE, similarItems |-> << >>]
             /\ llm.method = "generatePrReview" =>
                  /\ llm.result.value.findings = << >>
                  /\ llm.result.value.estimatedComplexity = "low"
             /\ llm.method = "suggestLabels" => llm.result.value.labels = << >>
             /\ llm.method = "assessVisionAlignment" =>
                  llm.result.value = [fit |-> "neutral", score |-> 500]

\* three failed attempts of different kinds, then the fallback
C8_Witness ==
  /\ llm.state = "returned"
  /\ llm.result.kind = "fallback"
  /\ llm.method = "assessVisionAlignment"
  /\ llm.log[1].threw /\ llm.log[2].wrap = "null" /\ llm.log[3].payload = "other"

\* C9: on the fallback verdict duplicate detection ends as on a genuine
\* verdict of no duplicate: without an error, with no comment and no label.
C9_FallbackIsNonDuplicate ==
  (Judged /\ ~dup.result.isDuplicate /\ dup.result.similarItems = << >>) =>
    /\ dupPc = "done"
    /\ dup.outcome = "not_duplicate"
    /\ SentBy("duplicate") = { }

C9_Witness == dup.result = FallbackVerdict /\ procPc = "resolved"

\* C10: every label handed to addLabels, from a label suggestion or from a
\* review, is a label of the repository.
C10_OnlyRepositoryLabels ==
  \A w \in apiWrites :
    w.req.op = "issues.addLabels" => Range(w.req.labels) \subseteq Range(repoLabels)

\* a call of cosineSimilarity has ended
CosineDone == call.fn = "cosineSimilarity" /\ call.state = "done"

AllFinite(v) == \A i \in 1..Len(v) : isFinite(v[i])

ZeroMagnitude(v) == \A i \in 1..Len(v) : v[i] = Fin(0)

\* C14: cosineSimilarity throws the length error whenever its vectors differ in
\* length, whatever they hold, and returns no number then.
C14_LengthMismatchThrows ==
  (CosineDone /\ Len(call.a) # Len(call.b)) =>
    /\ call.result.threw
    /\ call.result.error = "Vectors must have the same length"

\* vectors of different lengths, the longer one with a non-finite component
C14_Witness ==
  /\ CosineDone
  /\ Len(call.a) < Len(call.b)
  /\ ~AllFinite(call.b)
  /\ call.result.threw

\* C15: cosineSimilarity throws whenever a component of either vector is not
\* finite, and never returns NaN when every component is finite.
C15_NonFiniteThrowsNoNaN ==
  CosineDone =>
    /\ (~AllFinite(call.a) \/ ~AllFinite(call.b)) => call.result.threw
    /\ (AllFinite(call.a) /\ AllFinite(call.b) /\ ~call.result.threw) =>
         call.result.value.k # "nan"

\* C16: cosineSimilarity returns exactly 0, without an error, whenever one of
\* two finite vectors of equal length has zero magnitude.
C16_ZeroMagnitudeIsZero ==
  (CosineDone /\ Len(call.a) = Len(call.b) /\ AllFinite(call.a) /\ AllFinite(call.b)
     /\ (ZeroMagnitude(call.a) \/ ZeroMagnitude(call.b))) =>
    /\ ~call.result.threw
    /\ call.result.value = Fin(0)

\* C17: for finite vectors of equal length the result lies in [-1, 1], is the
\* same with the arguments exchanged, is 1 for a non-zero vector and itself,
\* -1 for a non-zero vector and its negation, and 0 for orthogonal vectors.
C17_CosineRangeAndSymmetry ==
  (CosineDone /\ Len(call.a) = Len(call.b) /\ AllFinite(call.a) /\ AllFinite(call.b)) =>
    LET value == call.result.value
    IN /\ ~call.result.threw
       /\ GreaterEq(value, Fin(-1000)) /\ GreaterEq(Fin(1000), value)
       /\ cosineSimilarity(call.b, call.a) = call.result
       /\ (call.a = call.b /\ ~ZeroMagnitude(call.a)) => value = Fin(1000)
       /\ (call.b = [i \in 1..Len(call.a) |-> Negated(call.a[i])] /\ ~ZeroMagnitude(call.a))
            => value = Fin(-1000)
       /\ (\A i \in 1..Len(call.a) : call.a[i] = Fin(0) \/ call.b[i] = Fin(0))
            => value = Fin(0)

\* a call of scoreBacklogItem has returned
ScoreDone == call.fn = "scoreBacklogItem" /\ call.state = "done"

\* C11: for every input, with similarities and severity counts that are
\* negative, far above their caps, missing or not finite, the score is an
\* integer from 0 to 100.
C11_ScoreInRange ==
  ScoreDone =>
    /\ call.result.score.k = "fin"
    /\ call.result.score.e = 0
    /\ call.result.score.m % 1000 = 0
    /\ 0 <= call.result.score.m /\ call.result.score.m <= 100000

\* clamp(x or 0, lo, hi) of the reference formula, in thousandths
ReferenceClamp(x, lo, hi) ==
  LET value == IF x.k \in {"undefined", "nan"} THEN 0
               ELSE IF x.k = "inf" \/ x.e > 0 THEN (IF x.m > 0 THEN hi ELSE lo)
               ELSE IF x.e < 0 THEN 0 ELSE x.m
  IN IF value < lo THEN lo ELSE IF value > hi THEN hi ELSE value

\* the score of the reference formula, in thousandths
ReferenceScore(input) ==
  LET counted == input.itemType = "pr" /\ input.severityCounts.present
      critical == IF counted THEN ReferenceClamp(input.severityCounts.critical, 0, 10000) ELSE 0
      major == IF counted THEN ReferenceClamp(input.severityCounts.major, 0, 20000) ELSE 0
      minor == IF counted THEN ReferenceClamp(input.severityCounts.minor, 0, 30000) ELSE 0
      sum == 10000
             + (IF input.dedupeStatus = "duplicate" THEN 55000
                ELSE IF input.dedupeStatus = "related" THEN 25000 ELSE 0)
             + 30 * ReferenceClamp(input.duplicateSimilarity, 0, 1000)
             + 3 * critical + (15 * major) \div 10 + (5 * minor) \div 10
             + (IF input.itemType = "pr" /\ input.reviewComplexity = "high" THEN 5000
                ELSE IF input.itemType = "pr" /\ input.reviewComplexity = "medium" THEN 2000
                ELSE 0)
             + (IF input.visionAlignment = "off-track" THEN 10000
                ELSE IF input.visionAlignment = "aligned" THEN -5000 ELSE 0)
      rounded == ((sum + 500) \div 1000) * 1000
  IN IF rounded < 0 THEN 0 ELSE IF rounded > 100000 THEN 100000 ELSE rounded

\* the reasons of the reference formula, in its order
ReferenceReasons(input) ==
  LET counted == input.itemType = "pr" /\ input.severityCounts.present
      similarity == ReferenceClamp(input.duplicateSimilarity, 0, 1000)
      critical == IF counted THEN ReferenceClamp(input.severityCounts.critical, 0, 10000) ELSE 0
      major == IF counted THEN ReferenceClamp(input.severityCounts.major, 0, 20000) ELSE 0
  IN << Reason(IF input.dedupeStatus = "duplicate" THEN "High duplicate likelihood"
               ELSE IF input.dedupeStatus = "related" THEN "Moderate duplicate signal"
               ELSE "No duplicate overlap detected") >>
     \o (IF similarity > 900 THEN << Reason("Very high semantic similarity") >>
         ELSE IF similarity > 750 THEN << Reason("Strong semantic similarity") >> ELSE << >>)
     \o (IF critical > 0 THEN << CountReason(Fin(critical), "critical finding(s)") >> ELSE << >>)
     \o (IF major > 0 THEN << CountReason(Fin(major), "major finding(s)") >> ELSE << >>)
     \o (IF input.itemType = "pr" /\ input.reviewComplexity = "high"
         THEN << Reason("High review complexity") >>
         ELSE IF input.itemType = "pr" /\ input.reviewComplexity = "medium"
              THEN << Reason("Medium review complexity") >> ELSE << >>)
     \o (IF input.visionAlignment = "off-track" THEN << Reason("Vision alignment mismatch") >>
         ELSE IF input.visionAlignment = "aligned" THEN << Reason("Aligns with vision goals") >>
         ELSE IF input.visionAlignment = "neutral"
              THEN << Reason("Vision alignment is neutral") >> ELSE << >>)

\* C12: for every combination of inputs scoreBacklogItem returns the score and
\* the reasons of the reference formula (10, +55 / +25, + 30 * similarity, the
\* weighted and capped findings and the complexity of a PR, +10 / -5 for the
\* vision fit, rounded and clamped to 0..100); the two named inputs score 100
\* and 35.
C12_ScoreMatchesReference ==
  ScoreDone =>
    /\ call.result.score = Fin(ReferenceScore(call.input))
    /\ call.result.reasons = ReferenceReasons(call.input)
    /\ (call.input = [itemType |-> "pr", dedupeStatus |-> "duplicate",
                      duplicateSimilarity |-> Fin(960), visionAlignment |-> "off-track",
                      severityCounts |-> Counts(Fin(1000), Fin(2000), Fin(3000)),
                      reviewComplexity |-> "high"])
         => call.result.score = Fin(100000)
    /\ (call.input.itemType = "issue" /\ call.input.dedupeStatus = "distinct"
          /\ call.input.duplicateSimilarity = Fin(1000)
          /\ call.input.visionAlignment = "aligned")
         => call.result.score = Fin(35000)

\* the similarities that are values: every one but NaN and the absent one
SimilarityValues == { x \in Similarities : x.k \in {"fin", "inf"} }

\* the score of the call's input with another similarity
ScoreWith(similarity) ==
  scoreBacklogItem([call.input EXCEPT !.duplicateSimilarity = similarity]).score

\* C13: with the other inputs fixed the score never decreases when the
\* similarity grows, over all values: a value of 0 or less scores as 0 and a
\* value of 1 or more as 1.
C13_MonotoneInSimilarity ==
  ScoreDone =>
    \A x \in SimilarityValues :
      /\ GreaterEq(x, call.input.duplicateSimilarity)
           => ~Less(ScoreWith(x), call.result.score)
      /\ GreaterEq(Fin(0), x) => ScoreWith(x) = ScoreWith(Fin(0))
      /\ GreaterEq(x, Fin(1000)) => ScoreWith(x) = ScoreWith(Fin(1000))

\* C18: MemoryStorage.findSimilar returns the empty sequence whatever has been
\* stored and whatever query, threshold and limit it is given, and leaves the
\* cache as it is.
C18_MemoryFindSimilarEmpty ==
  [][(backend = "memory" /\ call'.fn = "findSimilar") =>
       /\ ~call'.result.threw
       /\ call'.result.items = << >>
       /\ cache' = cache]_vars

\* the query is a stored embedding, the threshold negative, the limit 10
C18_Witness ==
  /\ backend = "memory"
  /\ call.fn = "findSimilar"
  /\ \E k \in DOMAIN cache : cache[k] = call.embedding
  /\ call.threshold < 0 /\ call.limit = 10
  /\ call.result.items = << >>

\* C19: on both backends getEmbedding(k) returns the vector of the latest
\* storeEmbedding(k, .), and nothing when there was none; a call of
\* storeEmbedding does not fail, and a key has one entry at most.
C19_LastWriteWins ==
  (call.fn \in {"initialize", "storeEmbedding", "getEmbedding", "findSimilar"}
     /\ call.exists /\ ~call.unprepared) =>
    /\ \A k \in StoreKeys :
         getEmbedding(k) =
           IF k \in DOMAIN call.written
           THEN [threw |-> FALSE, found |-> TRUE, embedding |-> call.written[k]]
           ELSE [threw |-> FALSE, found |-> FALSE, embedding |-> << >>]
    /\ call.fn = "storeEmbedding" => ~call.result.threw
    /\ \A k \in StoreKeys : Cardinality({ x \in rows : x.key = k }) <= 1

\* C20: initialize() on a store that is initialized does not fail and leaves
\* every stored embedding as it is, on both backends and between any other
\* calls.
C20_InitializeIdempotent ==
  [][(initialize /\ call.exists) =>
       /\ ~call'.result.threw
       /\ call'.exists
       /\ cache' = cache
       /\ rows' = rows]_vars

\* initialize() has been called again on a table that holds embeddings
C20_Witness ==
  /\ backend = "postgres"
  /\ call.fn = "initialize"
  /\ ~call.result.threw
  /\ rows # { }
  /\ DOMAIN call.written # { }

Entries(c, r) ==
  IF backend = "memory" THEN { << k, c[k] >> : k \in DOMAIN c }
  ELSE { << x.key, x.embedding >> : x \in r }

\* C22: duplicate detection stores the embedding of the item under
\* 'issue-<number>' or 'pr-<head sha>': unless the database cannot be reached
\* the store step succeeds, and after it that key has one entry, with the new
\* embedding, and the entry of every other key (that of a previous head sha
\* among them) is as before.
C22_StoredUnderContentKey ==
  dupPc = "store" =>
    LET key == IF event.type = "issue" THEN issueKey(event.number) ELSE prKey(event.sha)
        Stored(r) ==
          /\ Entries(r.cache, r.rows) =
               { e \in Entries(cache, rows) : e[1] # key } \cup { << key, dup.embedding >> }
          /\ backend = "postgres" => Cardinality({ x \in r.rows : x.key = key }) = 1
    IN /\ \E r \in storeEmbedding(cacheKey, dup.embedding) : ~r.threw
       /\ \A r \in storeEmbedding(cacheKey, dup.embedding) : ~r.threw => Stored(r)

\* the steps of each feature task
DuplicateStep ==
  \/ detectDuplicate_Embed \/ detectDuplicate_Store \/ findSimilar_Query \/ findSimilar_List
  \/ findSimilar_Scan \/ findSimilar_Return \/ detectDuplicate_Found \/ detectDuplicate_Judge
  \/ detectDuplicate_Posted

ReviewStep ==
  \/ generatePrReview_Fetch \/ generatePrReview_Review \/ generatePrReview_Posted
  \/ generatePrReview_Labels \/ generatePrReview_Labeled

LabelStep == suggestLabels_Fetch \/ suggestLabels_Suggest \/ suggestLabels_Applied

\* C23: the enabled feature tasks of an item, and no others, are started
\* together; while the call is awaited every unfinished task can take its next
\* step whatever the others have done, so no order holds between them; and the
\* call resolves only when every task has ended, after which no step of a task
\* is left.
C23_ConcurrentAndJoined ==
  /\ procPc # "idle" =>
       /\ dupPc # "off" <=> config.enableDuplicateDetection
       /\ revPc # "off" <=> (event.type = "pr" /\ config.enablePrReview)
       /\ labPc # "off" <=> config.enableLabeling
  /\ procPc = "awaiting" =>
       /\ ~Settled(dupPc) => ENABLED DuplicateStep
       /\ ~Settled(revPc) => ENABLED ReviewStep
       /\ ~Settled(labPc) => ENABLED LabelStep
  /\ procPc = "resolved" =>
       /\ Settled(dupPc) /\ Settled(revPc) /\ Settled(labPc)
       /\ ~ENABLED (DuplicateStep \/ ReviewStep \/ LabelStep)

\* the task started last has applied its labels while the two started before
\* it still stand at their first await
C23_Witness ==
  /\ event.type = "pr"
  /\ procPc = "awaiting"
  /\ dupPc = "embed"
  /\ revPc = "fetch"
  /\ labPc = "done" /\ LabelsOn("labels", event.number) # { }

\* the tasks that await the answer to a comment request, and to any writing
\* request, on the event's item
CommentsInFlight ==
  { t \in {"duplicate", "review"} :
      \/ t = "duplicate" /\ dupPc = "posting"
      \/ t = "review" /\ revPc = "posting" }

WritesInFlight ==
  CommentsInFlight
  \cup { t \in {"review-labels", "labels"} :
           \/ t = "review-labels" /\ revPc = "labeling"
           \/ t = "labels" /\ labPc = "labeling" }

\* C24: at no point are two comment requests, or two writing requests of any
\* kind, for the event's item in flight at once, and duplicate detection posts
\* at most one comment on the item.
C24_NoConcurrentSideEffects ==
  /\ Cardinality(CommentsInFlight) <= 1
  /\ Cardinality(WritesInFlight) <= 1
  /\ Cardinality(CommentsOn("duplicate", event.number)) <= 1

\* the embedding call, the neighbor search and the judgment call have completed
Embedded == dup.embedding # << >>

Searched == dupPc \in {"found", "judge", "posting", "done"} \/ (dupPc = "caught" /\ Judged)

\* C25: within duplicate detection the embedding call completes before the
\* store is written or queried; the neighbor search completes before a
\* candidate body is fetched and before the judgment call; and the judgment
\* call completes before a comment is posted.
C25_StepsInOrder ==
  /\ [](/\ ~Embedded =>
             /\ dupPc \in {"idle", "off", "embed", "caught"}
             /\ dup.list = << >> /\ dup.similarities = << >> /\ dup.similarItems = << >>
        /\ ~Searched => dup.withBody = << >> /\ judgeCalls = { }
        /\ ~Judged => SentBy("duplicate") = { } /\ dupPc # "posting"
        /\ dup.withBody # << >> => dup.similarItems # << >>
        /\ judgeCalls \subseteq { dup.withBody }
        /\ Judged => judgeCalls # { })
  /\ [][/\ storeVars' # storeVars => Embedded /\ dupPc \in {"store", "scan"}
        /\ dupPc' \in {"list", "scan", "found"} => Embedded
        /\ judgeCalls' # judgeCalls => dupPc = "judge" /\ dup.withBody # << >>
        /\ SentBy("duplicate")' # SentBy("duplicate") => Judged']_vars

\* the whole path: embedded, stored, scanned, judged and commented
C25_Witness ==
  /\ dupPc = "done" /\ dup.outcome = "posted"
  /\ Embedded
  /\ dup.list # << >>
  /\ judgeCalls # { }
  /\ CommentsOn("duplicate", event.number) # { }

\* the neighbor search has returned and has left no candidate
NoCandidate ==
  /\ dupPc \in {"found", "judge", "posting", "done"} \/ (dupPc = "caught" /\ dup.list # << >>
                                                          /\ dup.idx > Len(dup.list))
  /\ dup.similarItems = << >>

\* C26: when no candidate is left after the neighbor search and its filter,
\* duplicate detection ends at once: no body is fetched, no judgment call is
\* made, nothing is posted, and no error is logged.
C26_NoCandidateNoJudgment ==
  /\ NoCandidate =>
       /\ dupPc \in {"found", "done"}
       /\ dupPc = "done" => dup.outcome = "no_similar"
       /\ dup.withBody = << >>
       /\ judgeCalls = { }
       /\ ~Judged
       /\ SentBy("duplicate") = { }
  /\ dup.outcome = "no_similar" => NoCandidate /\ dupPc = "done"

\* the store has answered with the item's own row only, which the filter
\* removes
C26_Witness ==
  /\ backend = "postgres"
  /\ event.type = "issue"
  /\ dup.list = << >>
  /\ \E x \in rows : x.item_number = event.number /\ x.embedding = dup.embedding
  /\ dupPc = "done" /\ dup.outcome = "no_similar"
  /\ procPc = "resolved"

\* the rows of the table that the query of findSimilar matches
StoreHits ==
  { y \in rows : GreaterEq(cosineSimilarity(y.embedding, dup.embedding).value,
                           Fin(config.duplicateThreshold)) }

\* the neighbor search has returned on the path of the linear scan
Scanned == dup.list # << >> /\ dupPc \in {"found", "judge", "posting", "done"}

\* C27: the candidate list of the neighbor search, from the store or from the
\* linear scan, is in descending order of similarity, holds only items of the
\* event's type at or above duplicateThreshold, and has at most 10 entries;
\* the scan is entered exactly when the store query has returned nothing.
C27_CandidateList ==
  /\ IsSortedDesc(dup.similarItems)
  /\ Len(dup.similarItems) <= 10
  /\ \A i \in 1..Len(dup.similarItems) :
       /\ dup.similarItems[i].type = event.type
       /\ dup.similarItems[i].similarity >= config.duplicateThreshold
  /\ dupPc = "list" => (backend = "memory" \/ StoreHits = { })
  /\ (dupPc = "found" /\ dup.list = << >>) => (backend = "postgres" /\ StoreHits # { })

\* the scan has found more than 10 siblings at or above the threshold, in
\* another order than that of their similarity, and has returned 10
C27_Witness ==
  /\ Scanned
  /\ Len(dup.similarities) > 10
  /\ ~IsSortedDesc(dup.similarities)
  /\ Len(dup.similarItems) = 10
  /\ dup.similarItems[1].similarity > dup.similarItems[10].similarity

\* how often generateEmbedding has returned for an item
TimesEmbedded(number) ==
  Cardinality({ i \in 1..Len(dup.embedded) : dup.embedded[i] = number })

\* C28: when the linear scan has ended, the embedding of every listed sibling
\* is stored under that sibling's key, 'issue-<number>' or 'pr-<head sha>',
\* whether or not it reached the threshold or the first 10 matches, and the
\* event's item has been embedded once only.
C28_ScanWarmsCache ==
  Scanned =>
    /\ \A i \in 1..Len(dup.list) :
         dup.list[i].number # event.number =>
           /\ << (IF dup.list[i].type = "issue" THEN issueKey(dup.list[i].number)
                  ELSE prKey(dup.list[i].sha)), dup.list[i].emb >> \in Entries(cache, rows)
           /\ TimesEmbedded(dup.list[i].number) = 1
    /\ TimesEmbedded(event.number) = 1

\* a scan of more than 10 matches and of siblings below the threshold
C28_Witness ==
  /\ Scanned
  /\ config.duplicateThreshold = 850
  /\ Len(dup.list) > Len(dup.similarities) + 1
  /\ Len(dup.similarities) > 5
  /\ \E i \in 1..Len(dup.list) :
       /\ dup.list[i].emb = Vector(<<0, 5>>)
       /\ << ItemKey(dup.list[i]), dup.list[i].emb >> \in Entries(cache, rows)

\* cands are the first candidates of the neighbor search, 5 at most, and no
\* candidate left out has a higher similarity than one of them
TopFive(cands) ==
  /\ Len(cands) <= 5
  /\ Len(cands) = Min2(5, Len(dup.similarItems))
  /\ \A i \in 1..Len(cands) :
       /\ cands[i].number = dup.similarItems[i].number
       /\ cands[i].similarity = dup.similarItems[i].similarity
  /\ \A i \in 1..Len(cands) : \A j \in (Len(cands) + 1)..Len(dup.similarItems) :
       dup.similarItems[j].similarity <= cands[i].similarity

\* C29: the judgment call gets at most 5 candidates, the 5 of the highest
\* similarity of the neighbor search, and full items are fetched for those
\* only.
C29_TopFiveJudged ==
  /\ \A cands \in judgeCalls : TopFive(cands)
  /\ dup.withBody # << >> => TopFive(dup.withBody)
  /\ judgeCalls \subseteq { dup.withBody }

\* 10 candidates of three similarities, of which 5 were judged
C29_Witness ==
  /\ Len(dup.similarItems) = 10
  /\ dup.similarItems[5].similarity > dup.similarItems[10].similarity
  /\ dup.similarItems[1].similarity > dup.similarItems[5].similarity
  /\ \E cands \in judgeCalls : Len(cands) = 5
  /\ dupPc = "done" /\ Judged

\* the returned reasons hold one of these texts
HasReason(texts) ==
  \E i \in 1..Len(call.result.reasons) : call.result.reasons[i].text \in texts

\* the amounts the similarity and the three counts add to the score are above 0
SimilarityCounts ==
  Less(Fin(0), clamp(IF isFinite(call.input.duplicateSimilarity)
                     THEN call.input.duplicateSimilarity ELSE Fin(0), Fin(0), Fin(1000)))

FindingsCount(count, max) ==
  /\ call.input.itemType = "pr"
  /\ call.input.severityCounts.present
  /\ Less(Fin(0), clamp(OrZero(count), Fin(0), max))

\* C30: every component of the input that adds to or takes from the score has
\* a reason in the returned list: the dedupe status, the similarity, the
\* critical, major and minor counts, the review complexity and the vision fit.
C30_EveryPointHasReason ==
  ScoreDone =>
    /\ call.input.dedupeStatus \in {"duplicate", "related"} =>
         HasReason({"High duplicate likelihood", "Moderate duplicate signal"})
    /\ SimilarityCounts =>
         HasReason({"Very high semantic similarity", "Strong semantic similarity"})
    /\ FindingsCount(call.input.severityCounts.critical, Fin(10000)) =>
         HasReason({"critical finding(s)"})
    /\ FindingsCount(call.input.severityCounts.major, Fin(20000)) =>
         HasReason({"major finding(s)"})
    /\ FindingsCount(call.input.severityCounts.minor, Fin(30000)) =>
         HasReason({"minor finding(s)"})
    /\ (call.input.itemType = "pr" /\ call.input.reviewComplexity \in {"high", "medium"}) =>
         HasReason({"High review complexity", "Medium review complexity"})
    /\ call.input.visionAlignment \in {"off-track", "aligned"} =>
         HasReason({"Vision alignment mismatch", "Aligns with vision goals"})

\* the embedding call for the event's item has failed
EmbeddingFailed == dupPc = "caught" /\ ~Embedded

\* C31: when the embedding call for the item fails, the failure is logged and
\* duplicate detection ends there: nothing is stored, listed, searched, judged
\* or posted, and the store is as it was before; no vector other than the
\* provider's (no zero or empty vector) is ever used or stored.
C31_EmbeddingFailureStops ==
  /\ [](/\ dup.embedding \in { << >>, repoItems[event.number].emb }
        /\ \A e \in Entries(cache, rows) : e[2] \notin { << >>, Vector(<<0, 0>>) }
        /\ EmbeddingFailed =>
             /\ dup.outcome = "error"
             /\ dup.embedded = << >>
             /\ dup.list = << >> /\ dup.similarities = << >> /\ dup.similarItems = << >>
             /\ dup.withBody = << >>
             /\ judgeCalls = { }
             /\ ~Judged
             /\ SentBy("duplicate") = { })
  /\ [][~Embedded' => storeVars' = storeVars]_vars

\* the call has resolved after a failed embedding call, on a table that held
\* rows
C31_Witness ==
  /\ EmbeddingFailed
  /\ procPc = "resolved"
  /\ backend = "postgres"
  /\ rows # { }

\* C32: no call of a store removes a key: after every step the store holds
\* each key it held before, and every entry other than the one a
\* storeEmbedding call has just written is as it was (on PostgresStorage the
\* whole row).
C32_KeysNeverShrink ==
  [][/\ { e[1] : e \in Entries(cache, rows) } \subseteq { e[1] : e \in Entries(cache', rows') }
     /\ \A e \in Entries(cache, rows) :
          (call'.fn # "storeEmbedding" \/ e[1] # call'.key) => e \in Entries(cache', rows')
     /\ \A x \in rows :
          (call'.fn # "storeEmbedding" \/ x.key # call'.key) => x \in rows']_vars

\* storeEmbedding has just written one key of a store that holds two, after
\* calls of getEmbedding and findSimilar could have been made
C32_Witness ==
  /\ call.fn = "storeEmbedding"
  /\ ~call.result.threw
  /\ Cardinality(Entries(cache, rows)) >= 2
  /\ \E e \in Entries(cache, rows) : e[1] = call.key /\ e[2] = call.embedding
  /\ \E e \in Entries(cache, rows) : e[1] # call.key /\ e[2] # call.embedding

\* C33: a disabled feature has no effect.  Without duplicate detection no
\* embedding is generated, no judgment is asked for, no comment of duplicate
\* detection is sent and no step changes the store; without PR review no
\* review is generated and no review comment is sent; without labeling no
\* addLabels request is sent by any task, the PR review included.
C33_DisabledFeatureNoEffect ==
  /\ [](/\ ~config.enableDuplicateDetection =>
             /\ dup = DupInit
             /\ judgeCalls = { }
             /\ SentBy("duplicate") = { }
        /\ ~config.enablePrReview =>
             /\ review = NoReview
             /\ SentBy("review") = { }
        /\ ~config.enableLabeling =>
             /\ suggestion = NoSuggestion
             /\ \A w \in apiWrites : w.req.op # "issues.addLabels")
  /\ [][~config.enableDuplicateDetection => storeVars' = storeVars]_vars

\* a pull request has been processed with PR review as the only feature: the
\* review comment was sent and the review suggested labels of the repository
C33_Witness ==
  /\ procPc = "resolved"
  /\ event.type = "pr"
  /\ ~config.enableDuplicateDetection
  /\ config.enablePrReview
  /\ ~config.enableLabeling
  /\ revPc = "done"
  /\ SentBy("review") # { }
  /\ Len(ValidReviewLabels(review.suggestedLabels, repoLabels)) > 0
  /\ backend = "postgres"
  /\ rows # { }

\* run() has ended
RunEnded == call.fn = "run" /\ call.pc \in {"skipped", "returned", "failed"}

\* C34: in run(), storage.close() is called once, and before run() ends, when
\* initialize() has succeeded: after a call that resolved, after a backlog run
\* that was skipped, and after an error of the try block, which also marks the
\* run as failed; it is not called more than once; and when initialize() has
\* failed nothing is processed and the run is marked failed.
C34_CloseOncePerRun ==
  call.fn = "run" =>
    /\ call.closes <= 1
    /\ call.closes = 1 => call.initialized /\ call.outcome # "none"
    /\ (RunEnded /\ call.initialized) =>
         /\ call.closes = 1
         /\ call.outcome \in {"resolved", "skipped", "threw"}
         /\ call.outcome = "threw" => call.pc = "failed" /\ call.setFailed /\ ~call.completed
    /\ (call.outcome # "none" /\ call.closes = 0) => call.pc = "close"
    /\ call.initializeThrew =>
         /\ ~call.initialized /\ call.closes = 0 /\ call.outcome = "none"
         /\ call.pc = "failed" /\ call.setFailed
         /\ procPc = "idle" /\ dup = DupInit /\ apiWrites = { }

\* a backlog run on a payload without a repository: the try block has thrown,
\* the store was closed and the run is marked failed
C34_Witness ==
  /\ RunEnded
  /\ call.eventType = "backlog" /\ call.runBacklog /\ ~call.hasRepository
  /\ call.initialized
  /\ call.outcome = "threw"
  /\ call.closes = 1
  /\ call.setFailed

\* run() stands at storage.close() or has called it
AtOrAfterClose == call.fn = "run" /\ (call.pc = "close" \/ call.closes >= 1)

\* C35: no storage operation is issued after storage.close(): when run()
\* reaches close() every feature task that was started has ended, whether it
\* succeeded or failed and whatever its siblings did, no step of duplicate
\* detection is left, and from then on no step touches the detection state or
\* the store, other than close() itself.
C35_NoStorageAfterClose ==
  /\ [](AtOrAfterClose =>
          /\ procPc # "idle" => Settled(dupPc) /\ Settled(revPc) /\ Settled(labPc)
          /\ ~ENABLED DuplicateStep)
  /\ [][AtOrAfterClose =>
          /\ dupVars' = dupVars
          /\ rows' = rows
          /\ cache' = cache \/ call'.closes = call.closes + 1]_vars

\* run() stands at close() after a pull request whose label task failed while
\* duplicate detection went on to store the embedding and to query the store
C35_Witness ==
  /\ call.fn = "run" /\ call.pc = "close"
  /\ event.type = "pr"
  /\ labPc = "caught"
  /\ dupPc = "done"
  /\ Searched
  /\ \E e \in Entries(cache, rows) : e[1] = cacheKey /\ e[2] = dup.embedding

\* the neighbor search has returned what was left of a non-empty store result
FromStore == dup.list = << >> /\ dupPc \in {"found", "judge", "posting", "done"}

\* C36: the linear scan is entered only on an empty store result.  A store
\* query that returns neighbors ends the search with the neighbors the filter
\* keeps; nothing is listed and no sibling is embedded or stored then, and when
\* the filter keeps none, detection ends without a judgment call or a comment.
C36_ScanOnlyOnEmptyResult ==
  /\ [](/\ FromStore =>
             /\ dup.embedded = << event.number >>
             /\ dup.similarities = << >>
             /\ dup.idx = 0
             /\ dup.similarItems = << >> =>
                  /\ dupPc \in {"found", "done"}
                  /\ dupPc = "done" => dup.outcome = "no_similar"
                  /\ judgeCalls = { }
                  /\ SentBy("duplicate") = { }
        /\ dup.list # << >> => backend = "memory" \/ StoreHits = { })
  /\ [][dupPc = "query" =>
          LET answers == { r \in findSimilar(dup.embedding, config.duplicateThreshold,
                                             findSimilarLimit) : ~r.threw }
          IN /\ dupPc' = "list" => \E r \in answers : r.items = << >>
             /\ dupPc' = "found" =>
                  /\ \E r \in answers :
                       /\ Len(r.items) > 0
                       /\ dup'.similarItems = FilterFromDb(r.items, event.number, event.type)
                  /\ dup'.list = << >> /\ dup'.embedded = dup.embedded
                  /\ storeVars' = storeVars]_vars

\* the store has returned the issue's own row and the row of a pull request,
\* the filter has removed both, and detection has ended although the
\* repository holds another issue
C36_Witness ==
  /\ backend = "postgres"
  /\ event.type = "issue"
  /\ FromStore
  /\ \E x \in StoreHits : x.item_number = event.number /\ x.item_type = event.type
  /\ \E x \in StoreHits : x.item_type # event.type
  /\ dup.similarItems = << >>
  /\ Len(getIssues(repoItems)) > 1
  /\ dupPc = "done" /\ dup.outcome = "no_similar"
  /\ procPc = "resolved"

\* C37: for the keys duplicate detection writes to the table, 'issue-<number>'
\* and 'pr-<head sha>', storeEmbedding succeeds unless the database cannot be
\* reached, and the row of an item's key carries that item's number and type.
C37_RowCarriesOwnNumber ==
  backend = "postgres" =>
    /\ dupPc = "store" => \E r \in storeEmbedding(cacheKey, dup.embedding) : ~r.threw
    /\ \A x \in rows : \A n \in DOMAIN repoItems :
         x.key = ItemKey(repoItems[n]) =>
           x.item_number = n /\ x.item_type = repoItems[n].type

\* the numbers of the siblings among the first n listed items, in their order
SiblingsUpTo(n) ==
  SelectSeq([i \in 1..n |-> dup.list[i].number], LAMBDA number : number # event.number)

\* the scan has ended in the catch at the listed item dup.idx
ScanFailed == dupPc = "caught" /\ dup.list # << >> /\ dup.idx <= Len(dup.list)

\* C38: a failure at one sibling ends the linear scan and duplicate detection
\* with it: the siblings listed before it have been embedded and their
\* embeddings stay stored, the one that failed and those after it are neither
\* embedded nor stored, no judgment call is made and no comment is posted, and
\* nothing changes afterwards.
C38_ScanFailureEndsDetection ==
  /\ []((dupPc = "scan" \/ ScanFailed) =>
          /\ dup.embedded = << event.number >> \o SiblingsUpTo(dup.idx - 1)
          /\ \A i \in 1..Len(dup.list) :
               dup.list[i].number # event.number =>
                 IF i < dup.idx
                 THEN << ItemKey(dup.list[i]), dup.list[i].emb >> \in Entries(cache, rows)
                 ELSE \A e \in Entries(cache, rows) : e[1] # ItemKey(dup.list[i])
          /\ ScanFailed =>
               /\ dup.outcome = "error"
               /\ dup.similarItems = << >> /\ dup.withBody = << >>
               /\ judgeCalls = { }
               /\ ~Judged
               /\ SentBy("duplicate") = { })
  /\ [][ScanFailed => dupVars' = dupVars /\ storeVars' = storeVars]_vars

\* the scan has failed at a sibling after three others, one of them at or above
\* the threshold, with more than one sibling left, and the call has resolved
C38_Witness ==
  /\ ScanFailed
  /\ dup.idx = 4
  /\ dup.list[dup.idx].number # event.number
  /\ Len(dup.list) > dup.idx + 2
  /\ dup.similarities # << >>
  /\ Cardinality(Entries(cache, rows)) = 4
  /\ procPc = "resolved"

====
